---- MODULE Spec2Model ----
(***************************************************************************)
(* Model of the orchestration core of sanjeevani-agents:                   *)
(* SuperAgent (src/src/agents/super_agents.py), the LangGraph state        *)
(* machine planner -> router -> (research | gis | iucn) -> router -> ...   *)
(* -> synthesizer -> END, and its entry point SuperAgent.query; and of     *)
(* the retrieval agents it calls (src/src/agents/base_agent.py,            *)
(* research_agent.py, iucn_agent.py, gis_agent.py): the name extractor,    *)
(* the search cascade, the validation of results and process_query.        *)
(*                                                                         *)
(* Python strings are TLA+ strings; TLC evaluates Len, SubSeq and \o on    *)
(* them, so substring tests, lower(), split() and the JSON slice of the    *)
(* planner are computed character by character as the code computes them.  *)
(* Python list indices are 0-based: plan[idx] of the code is plan[idx+1].  *)
(***************************************************************************)
EXTENDS Integers, Sequences, FiniteSets, TLC

VARIABLES
    pc,                 \* node of the graph the invocation is at
    question,           \* AgentState.question
    plan,               \* AgentState.plan
    current_step_index, \* AgentState.current_step_index
    research_data,      \* AgentState.research_data
    gis_data,           \* AgentState.gis_data
    iucn_data,          \* AgentState.iucn_data
    retry_count,        \* AgentState.retry_count
    chat_history,       \* AgentState.chat_history (reducer operator.add)
    final_answer,       \* AgentState.final_answer
    planner_llm,        \* response of the planner's language-model call, until the router runs
    route,              \* last value returned by _route_decision
    router_llm,         \* response of the routing language-model call, until the next node runs
    llm_calls,          \* per purpose, number of language-model calls of the invocation
    agent_calls,        \* per worker, number of process_query calls of the invocation
    last_query,         \* text passed to the last process_query call
    last_result,        \* value returned by the last process_query call
    response,           \* value returned by SuperAgent.query
    checkpoint,         \* chat_history the instance's MemorySaver holds for the thread identifier
    session,            \* per session identifier: queries started, invocations the
                        \* current SuperAgent completed, invocations completed in all
    peer,               \* a second invocation running on the same thread identifier
    planner_prompt,     \* prompt of the planner's language-model call
    synth_llm,          \* response of the synthesis language-model call, until query returns
    synth_context,      \* context placed in the synthesis prompt
    agent               \* the retrieval agent's call at hand: its arguments, its place
                        \* in the search, the engine calls made, the value returned

vars == <<pc, question, plan, current_step_index, research_data, gis_data,
          iucn_data, retry_count, chat_history, final_answer, planner_llm,
          route, router_llm, llm_calls, agent_calls, last_query, last_result,
          response, checkpoint, session, peer, planner_prompt, synth_llm,
          synth_context, agent>>

-----------------------------------------------------------------------------
(* Python str operations *)

UpperAlpha == "ABCDEFGHIJKLMNOPQRSTUVWXYZ"
LowerAlpha == "abcdefghijklmnopqrstuvwxyz"

CharAt(s, i) == SubSeq(s, i, i)

\* sub in s
Contains(sub, s) ==
    \E i \in 1..(Len(s) - Len(sub) + 1) : SubSeq(s, i, i + Len(sub) - 1) = sub

\* any(k in s for k in keys)
AnyIn(keys, s) == \E k \in keys : Contains(k, s)

\* the letters, as a table from each to its other case
LowerOf == [c \in {CharAt(UpperAlpha, k) : k \in 1..Len(UpperAlpha)} |->
               CharAt(LowerAlpha, CHOOSE k \in 1..Len(UpperAlpha) : CharAt(UpperAlpha, k) = c)]
UpperOf == [c \in {CharAt(LowerAlpha, k) : k \in 1..Len(LowerAlpha)} |->
               CharAt(UpperAlpha, CHOOSE k \in 1..Len(LowerAlpha) : CharAt(LowerAlpha, k) = c)]

LowerChar(c) == IF c \in DOMAIN LowerOf THEN LowerOf[c] ELSE c

UpperChar(c) == IF c \in DOMAIN UpperOf THEN UpperOf[c] ELSE c

RECURSIVE Lower(_)
\* s.lower()
Lower(s) == IF Len(s) = 0 THEN "" ELSE LowerChar(CharAt(s, 1)) \o Lower(Tail(s))

RECURSIVE Upper(_)
\* s.upper()
Upper(s) == IF Len(s) = 0 THEN "" ELSE UpperChar(CharAt(s, 1)) \o Upper(Tail(s))

IsSpace(c) == c = " "

RECURSIVE Split(_)
\* s.split(): the maximal runs of non-whitespace characters, in order
Split(s) ==
    IF Len(s) = 0 THEN <<>>
    ELSE IF IsSpace(CharAt(s, 1)) THEN Split(Tail(s))
    ELSE LET stops == {j \in 1..Len(s) : IsSpace(CharAt(s, j))}
             e == IF stops = {} THEN Len(s) + 1
                  ELSE CHOOSE j \in stops : \A k \in stops : j <= k
         IN  <<SubSeq(s, 1, e - 1)>> \o Split(SubSeq(s, e, Len(s)))

\* s.find(c): 0-based index of the first occurrence, -1 if none
Find(c, s) ==
    LET hits == {i \in 1..(Len(s) - Len(c) + 1) : SubSeq(s, i, i + Len(c) - 1) = c}
    IN  IF hits = {} THEN -1 ELSE (CHOOSE i \in hits : \A k \in hits : i <= k) - 1

\* s.rfind(c): 0-based index of the last occurrence, -1 if none
RFind(c, s) ==
    LET hits == {i \in 1..(Len(s) - Len(c) + 1) : SubSeq(s, i, i + Len(c) - 1) = c}
    IN  IF hits = {} THEN -1 ELSE (CHOOSE i \in hits : \A k \in hits : i >= k) - 1

\* s[start:end] for 0 <= start, 0 <= end
Slice(s, start, end) ==
    LET e == IF end > Len(s) THEN Len(s) ELSE end
    IN  IF start >= e THEN "" ELSE SubSeq(s, start + 1, e)

RECURSIVE Strip(_)
\* s.strip()
Strip(s) ==
    IF Len(s) = 0 THEN ""
    ELSE IF IsSpace(CharAt(s, 1)) THEN Strip(Tail(s))
    ELSE IF IsSpace(CharAt(s, Len(s))) THEN Strip(SubSeq(s, 1, Len(s) - 1))
    ELSE s

-----------------------------------------------------------------------------
(* json.loads / json.dumps, for the texts the orchestrator hands them:      *)
(* strings without escapes, null, lists and objects (nested), whitespace.  *)
(* A value is [k |-> "str", v |-> text], [k |-> "null", v |-> ""],          *)
(* [k |-> "list", v |-> <<values>>] or [k |-> "obj", v |-> <<members>>], a  *)
(* member being [key |-> text, val |-> value]; any other text is a         *)
(* JSONDecodeError.                                                        *)

JStr(text) == [k |-> "str", v |-> text]
JNull == [k |-> "null", v |-> ""]
JList(values) == [k |-> "list", v |-> values]
JObj(members) == [k |-> "obj", v |-> members]
Member(key, value) == [key |-> key, val |-> value]

JsonFail == [ok |-> FALSE, val |-> [k |-> "none", v |-> <<>>], next |-> 0]
JsonOk(value, next) == [ok |-> TRUE, val |-> value, next |-> next]

RECURSIVE SkipWs(_, _)
\* index of the first non-whitespace character at or after i (Len(s)+1 if none)
SkipWs(s, i) ==
    IF i > Len(s) THEN Len(s) + 1
    ELSE IF IsSpace(CharAt(s, i)) THEN SkipWs(s, i + 1)
    ELSE i

RECURSIVE IndexFrom(_, _, _)
\* index of the first character c at or after i, 0 if none
IndexFrom(c, s, i) ==
    IF i > Len(s) THEN 0
    ELSE IF CharAt(s, i) = c THEN i
    ELSE IndexFrom(c, s, i + 1)

\* the string literal opening at the quote at j
ParseString(s, j) ==
    LET c == IndexFrom("\"", s, j + 1)
    IN  IF c = 0 THEN JsonFail
        ELSE JsonOk(JStr(SubSeq(s, j + 1, c - 1)), c + 1)

RECURSIVE ParseValue(_, _), ParseElems(_, _, _), ParseMembers(_, _, _)
ParseValue(s, i) ==
    LET j == SkipWs(s, i)
    IN  IF j > Len(s) THEN JsonFail
        ELSE IF CharAt(s, j) = "\"" THEN ParseString(s, j)
        ELSE IF j + 3 <= Len(s) /\ SubSeq(s, j, j + 3) = "null" THEN JsonOk(JNull, j + 4)
        ELSE IF CharAt(s, j) = "[" THEN
            LET j2 == SkipWs(s, j + 1)
            IN  IF j2 <= Len(s) /\ CharAt(s, j2) = "]"
                THEN JsonOk(JList(<<>>), j2 + 1)
                ELSE ParseElems(s, j + 1, <<>>)
        ELSE IF CharAt(s, j) = "{" THEN
            LET j2 == SkipWs(s, j + 1)
            IN  IF j2 <= Len(s) /\ CharAt(s, j2) = "}"
                THEN JsonOk(JObj(<<>>), j2 + 1)
                ELSE ParseMembers(s, j + 1, <<>>)
        ELSE JsonFail

ParseElems(s, i, acc) ==
    LET r == ParseValue(s, i)
    IN  IF ~r.ok THEN JsonFail
        ELSE LET j == SkipWs(s, r.next)
             IN  IF j > Len(s) THEN JsonFail
                 ELSE IF CharAt(s, j) = ","
                      THEN ParseElems(s, j + 1, Append(acc, r.val))
                 ELSE IF CharAt(s, j) = "]"
                      THEN JsonOk(JList(Append(acc, r.val)), j + 1)
                 ELSE JsonFail

ParseMembers(s, i, acc) ==
    LET j == SkipWs(s, i)
    IN  IF j > Len(s) \/ CharAt(s, j) # "\"" THEN JsonFail
        ELSE LET key == ParseString(s, j)
                 c == IF key.ok THEN SkipWs(s, key.next) ELSE Len(s) + 1
             IN  IF c > Len(s) \/ CharAt(s, c) # ":" THEN JsonFail
                 ELSE LET r == ParseValue(s, c + 1)
                          e == IF r.ok THEN SkipWs(s, r.next) ELSE Len(s) + 1
                          \* a repeated key keeps its last value, as a dict does
                          kept == SelectSeq(acc, LAMBDA m : m.key # key.val.v)
                          now == Append(kept, Member(key.val.v, r.val))
                      IN  IF e > Len(s) THEN JsonFail
                          ELSE IF CharAt(s, e) = "," THEN ParseMembers(s, e + 1, now)
                          ELSE IF CharAt(s, e) = "}" THEN JsonOk(JObj(now), e + 1)
                          ELSE JsonFail

\* json.loads(s): the value, or failure when s is no single JSON value
JsonLoads(s) ==
    LET r == ParseValue(s, 1)
    IN  IF r.ok /\ SkipWs(s, r.next) > Len(s) THEN r ELSE JsonFail

RECURSIVE JsonDumps(_), DumpElems(_), DumpMembers(_)
\* json.dumps(value) with the default separators ", " and ": "
JsonDumps(val) ==
    IF val.k = "str" THEN "\"" \o val.v \o "\""
    ELSE IF val.k = "null" THEN "null"
    ELSE IF val.k = "list" THEN "[" \o DumpElems(val.v) \o "]"
    ELSE "{" \o DumpMembers(val.v) \o "}"

DumpElems(values) ==
    IF Len(values) = 0 THEN ""
    ELSE JsonDumps(values[1]) \o
         (IF Len(values) = 1 THEN "" ELSE ", " \o DumpElems(Tail(values)))

DumpMembers(members) ==
    IF Len(members) = 0 THEN ""
    ELSE "\"" \o members[1].key \o "\": " \o JsonDumps(members[1].val) \o
         (IF Len(members) = 1 THEN "" ELSE ", " \o DumpMembers(Tail(members)))

\* d.get(key, default) of a parsed object
HasKey(obj, key) == \E n \in 1..Len(obj.v) : obj.v[n].key = key
DictGet(obj, key, default) ==
    IF HasKey(obj, key)
    THEN obj.v[CHOOSE n \in 1..Len(obj.v) : obj.v[n].key = key].val
    ELSE default

\* a parsed list all of whose elements are strings, as a sequence of str
IsStrList(val) == val.k = "list" /\ \A n \in 1..Len(val.v) : val.v[n].k = "str"
StrList(val) == [n \in 1..Len(val.v) |-> val.v[n].v]

-----------------------------------------------------------------------------
(* Inputs: questions, language-model responses, worker results *)

\* Largest number of filler words between the first and the last word of a
\* question; with the first and the optional last word a question has
\* 1, 2, MaxFill + 1 or MaxFill + 2 words, on both sides of FastPathWords
MaxFill == 6
FillCounts == {0, MaxFill}

\* Words a question starts with: a plant name, a word with "and" inside it,
\* a capitalised conjunction, two routing keywords, a planner-only location
\* keyword
HeadWords == {"Ocimum", "sandalwood", "Compare", "Where", "Location", "map"}

\* Optional last word of a question ("" for none)
TailWords == {"", "Ocimum", "also"}

RECURSIVE Filler(_)
Filler(n) == IF n = 0 THEN "" ELSE " of" \o Filler(n - 1)

Questions ==
    {h \o Filler(n) \o (IF t = "" THEN "" ELSE " " \o t) :
        h \in HeadWords, n \in FillCounts, t \in TailWords}

\* A language-model call either raises or returns a text
Raised == [raised |-> TRUE, content |-> ""]
Returned(text) == [raised |-> FALSE, content |-> text]
NotCalled == [raised |-> FALSE, content |-> "<not called>"]

PlannerContents ==
    {"[\"Identify plant\", \"Find habitat\"]",
     "Steps: [\"Identify Ocimum\"] done",
     "[]",
     "I cannot plan this",
     "[\"Identify plant\"",
     "[\"a\"] or [\"b\"]",
     "[[\"Identify plant\"]]"}

PlannerOutcomes == {Raised} \cup {Returned(c) : c \in PlannerContents}

RouterContents == {"GIS", " iucn ", "RESEARCH", "IUCN or GIS", "unsure"}

RouterOutcomes == {Raised} \cup {Returned(c) : c \in RouterContents}

\* Records of the research / conservation collections: botanical_name is a
\* name, the default "Unknown", or "" (None or empty: both are falsy)
PlantRecord(name) == [botanical_name |-> name]
LocationRecord(d) == [district |-> d]

AgentResult(records) ==
    [results |-> records, error |-> FALSE, summary |-> "matches found"]
ErrorResult ==
    [results |-> <<>>, error |-> TRUE,
     summary |-> "GIS Search failed due to internal error."]

PlantResults ==
    {AgentResult(<<>>),
     AgentResult(<<PlantRecord("Ocimum")>>),
     AgentResult(<<PlantRecord("Unknown"), PlantRecord("Ocimum")>>),
     AgentResult(<<PlantRecord("")>>)}

LocationResults ==
    {AgentResult(<<>>),
     AgentResult(<<LocationRecord("Bangalore"), LocationRecord("Belgaum")>>),
     ErrorResult}

\* What process_query of a worker can return
WorkerResults(worker) == IF worker = "gis" THEN LocationResults ELSE PlantResults

SynthContents ==
    {"not json",
     "{\"answer\": \"Tulsi is holy basil.\", \"image_query\": \"Ocimum sanctum\"}",
     "{\"answer\": null, \"locations\": [\"Kerala\"]}",
     "{\"answer\": \"Tulsi is holy basil.\", \"image_url\": \"https://example.org/leaf.jpg\"}",
     "[\"Tulsi\"]"}

SynthOutcomes == {Raised} \cup {Returned(c) : c \in SynthContents}

\* fetch_wikipedia_image returns a URL or None ("")
ImageOutcomes == {"", "https://upload.wikimedia.org/ocimum.jpg"}

-----------------------------------------------------------------------------
(* SuperAgent._planner_node *)

FastPathWords == 8
ConjunctionWords == {"and", "also", "compare"}
LocationWords == {"where", "location", "map", "grow", "district", "place"}

\* the condition of the fast path (line 94)
IsFastPath(q) ==
    Len(Split(q)) < FastPathWords /\ ~AnyIn(ConjunctionWords, Lower(q))

LocationStep(q) == "Find location and habitat data for: " \o q

\* plan = [question], plus the forced location step (lines 96-101, 148-153)
SingleStepPlan(q) ==
    <<q>> \o (IF AnyIn(LocationWords, Lower(q)) THEN <<LocationStep(q)>> ELSE <<>>)

\* the local variable plan after the try/except of lines 130-145, as JSON values
LlmPlan(q, outcome) ==
    IF outcome.raised THEN <<JStr(q)>>
    ELSE LET content == Strip(outcome.content)
         IN  IF Contains("[", content)
             THEN LET start == Find("[", content)
                      end == RFind("]", content) + 1
                      r == JsonLoads(Slice(content, start, end))
                  IN  IF r.ok THEN r.val.v ELSE <<JStr(q)>>
             ELSE <<JStr(q)>>

\* The value the node returns: a state update, or None. The return statement
\* of the language-model path (lines 155-160) is inside "if not plan:", so
\* with a non-empty plan the function falls off its end.
PlannerUpdate(plan_) ==
    [none |-> FALSE, plan |-> plan_, current_step_index |-> 0, retry_count |-> 0]
PlannerNone ==
    [none |-> TRUE, plan |-> <<>>, current_step_index |-> 0, retry_count |-> 0]

PlannerNode(q, outcome) ==
    IF IsFastPath(q) THEN PlannerUpdate(SingleStepPlan(q))
    ELSE IF Len(LlmPlan(q, outcome)) = 0 THEN PlannerUpdate(SingleStepPlan(q))
    ELSE PlannerNone

\* characters of a message the planner's prompt keeps (line 118)
HistoryChars == 200
\* messages of the history the planner's prompt keeps (line 117)
RecentMessages == 2

\* history[-n:]
LastOf(history, n) ==
    SubSeq(history, IF Len(history) > n THEN Len(history) - n + 1 ELSE 1, Len(history))

\* history[-2:] (line 117)
RecentHistory(history) == LastOf(history, RecentMessages)

\* f"{m.type}: {m.content[:200]}..."
FormatMessage(m) == m.type \o ": " \o Slice(m.content, 0, HistoryChars) \o "..."

RECURSIVE JoinLines(_)
\* "\n".join(lines)
JoinLines(lines) ==
    IF Len(lines) = 0 THEN ""
    ELSE IF Len(lines) = 1 THEN lines[1]
    ELSE lines[1] \o "\n" \o JoinLines(Tail(lines))

\* "Previous Context:\n" and one line for each of the messages
FormatHistory(messages) ==
    "Previous Context:\n" \o
    JoinLines([n \in 1..Len(messages) |-> FormatMessage(messages[n])])

\* history_str of lines 114-118
HistoryStr(history) ==
    IF Len(history) = 0 THEN "" ELSE FormatHistory(RecentHistory(history))

\* the prompt of lines 120-128
PlannerPrompt(history_str, q) ==
    history_str \o "\n        \n        Current Query: \"" \o q \o "\"\n        \n" \o
    "        Analyze the query. If it refers to previous context (e.g., \"it\", \"that plant\"), resolve it using the conversation history.\n" \o
    "        Break it down into a list of simple steps.\n" \o
    "        Format: JSON list of strings.\n" \o
    "        Example: [\"Identify plant\", \"Find habitat\"]\n        "

\* the planner makes no language-model call on the fast path
NoPrompt == "<no prompt>"

-----------------------------------------------------------------------------
(* SuperAgent._route_decision and the conditional edges of _build_graph *)

GisWords == {"where", "location", "region", "habitat", "distribution", "grow"}

\* RouterAsksLlm without the keyword heuristic
RouterAsksLlm_Always(plan_, idx) == idx < Len(plan_)

\* whether the decision for this state asks the language model (lines 178-198)
RouterAsksLlm(plan_, idx) ==
    idx < Len(plan_) /\ ~AnyIn(GisWords, Lower(plan_[idx + 1]))

\* RouteDecision with the bound check off by one: plan[idx] at idx = len(plan)
\* raises IndexError
RouteDecision_OffByOne(plan_, idx, outcome) ==
    IF idx > Len(plan_) THEN "synthesize"
    ELSE IF idx = Len(plan_) THEN "IndexError"
    ELSE IF AnyIn(GisWords, Lower(plan_[idx + 1])) THEN "gis"
    ELSE LET choice == IF outcome.raised THEN "RESEARCH"
                       ELSE Upper(Strip(outcome.content))
         IN  IF Contains("GIS", choice) THEN "gis"
             ELSE IF Contains("IUCN", choice) THEN "iucn"
             ELSE "research"

\* RouteDecision that sends a step rewritten by a retry to the rewriter
RouteDecision_Rewrites(plan_, idx, outcome) ==
    IF idx >= Len(plan_) THEN "synthesize"
    ELSE IF Contains(" medicinal plant", plan_[idx + 1]) THEN "rewrite"
    ELSE IF AnyIn(GisWords, Lower(plan_[idx + 1])) THEN "gis"
    ELSE LET choice == IF outcome.raised THEN "RESEARCH"
                       ELSE Upper(Strip(outcome.content))
         IN  IF Contains("GIS", choice) THEN "gis"
             ELSE IF Contains("IUCN", choice) THEN "iucn"
             ELSE "research"

\* lines 166-202
RouteDecision(plan_, idx, outcome) ==
    IF idx >= Len(plan_) THEN "synthesize"
    ELSE IF AnyIn(GisWords, Lower(plan_[idx + 1])) THEN "gis"
    ELSE LET choice == IF outcome.raised THEN "RESEARCH"
                       ELSE Upper(Strip(outcome.content))
         IN  IF Contains("GIS", choice) THEN "gis"
             ELSE IF Contains("IUCN", choice) THEN "iucn"
             ELSE "research"

\* the mapping given to add_conditional_edges (lines 66-72)
Edges ==
    [research |-> "research_agent", gis |-> "gis_agent", iucn |-> "iucn_agent",
     synthesize |-> "synthesizer", rewrite |-> "query_rewriter"]

\* a decision outside the mapping, or an exception in the decision, ends the
\* invocation with an error
EdgeTarget(decision) ==
    IF decision \in DOMAIN Edges THEN Edges[decision] ELSE "crashed"

-----------------------------------------------------------------------------
(* Agent nodes: _research_node, _gis_node, _iucn_node *)

\* InjectContext that never appends the plant name
InjectContext_Never(query, research_data_) ==
    IF Len(research_data_) = 0 THEN [raised |-> FALSE, query |-> query]
    ELSE LET results == research_data_[Len(research_data_)].results
         IN  [raised |-> Len(results) = 0, query |-> query]

\* Context injection (lines 209-212, 228-231, 240-243). [0] of an empty
\* results list raises IndexError.
InjectContext(query, research_data_) ==
    IF Len(research_data_) = 0 THEN [raised |-> FALSE, query |-> query]
    ELSE LET results == research_data_[Len(research_data_)].results
         IN  IF Len(results) = 0 THEN [raised |-> TRUE, query |-> query]
             ELSE LET last_plant == results[1].botanical_name
                  IN  IF last_plant # "" /\ ~Contains(last_plant, query)
                      THEN [raised |-> FALSE, query |-> query \o " " \o last_plant]
                      ELSE [raised |-> FALSE, query |-> query]

RetrySuffix == " medicinal plant"

\* ResearchUpdate with the retry budget off by one (retry_count <= 1)
ResearchUpdate_TwoRetries(plan_, idx, retries, data, query, result) ==
    IF Len(result.results) = 0 /\ retries <= 1
    THEN [plan |-> [plan_ EXCEPT ![idx + 1] = query \o " medicinal plant"],
          current_step_index |-> idx, retry_count |-> retries + 1, data |-> data]
    ELSE [plan |-> plan_, current_step_index |-> idx + 1, retry_count |-> 0,
          data |-> Append(data, result)]

\* ResearchUpdate of which the retry rewrites every step of the plan
ResearchUpdate_RewritesAll(plan_, idx, retries, data, query, result) ==
    IF Len(result.results) = 0 /\ retries < 1
    THEN [plan |-> [n \in 1..Len(plan_) |-> query \o " medicinal plant"],
          current_step_index |-> idx, retry_count |-> retries + 1, data |-> data]
    ELSE [plan |-> plan_, current_step_index |-> idx + 1, retry_count |-> 0,
          data |-> Append(data, result)]

\* ResearchUpdate that keeps the empty result of the first attempt
ResearchUpdate_AppendsOnRetry(plan_, idx, retries, data, query, result) ==
    IF Len(result.results) = 0 /\ retries < 1
    THEN [plan |-> [plan_ EXCEPT ![idx + 1] = query \o " medicinal plant"],
          current_step_index |-> idx, retry_count |-> retries + 1,
          data |-> Append(data, result)]
    ELSE [plan |-> plan_, current_step_index |-> idx + 1, retry_count |-> 0,
          data |-> Append(data, result)]

\* the update _research_node returns (lines 217-222); data is research_data
ResearchUpdate(plan_, idx, retries, data, query, result) ==
    IF Len(result.results) = 0 /\ retries < 1
    THEN [plan |-> [plan_ EXCEPT ![idx + 1] = query \o RetrySuffix],
          current_step_index |-> idx, retry_count |-> retries + 1, data |-> data]
    ELSE [plan |-> plan_, current_step_index |-> idx + 1, retry_count |-> 0,
          data |-> Append(data, result)]

\* DomainUpdate that skips the step after the one it ran
DomainUpdate_SkipsStep(plan_, idx, retries, data, query, result) ==
    [plan |-> plan_, current_step_index |-> idx + 2, retry_count |-> 0,
     data |-> Append(data, result)]

\* DomainUpdate that leaves retry_count as it found it
DomainUpdate_KeepsRetry(plan_, idx, retries, data, query, result) ==
    [plan |-> plan_, current_step_index |-> idx + 1, retry_count |-> retries,
     data |-> Append(data, result)]

\* the update _gis_node and _iucn_node return (lines 234, 246)
DomainUpdate(plan_, idx, retries, data, query, result) ==
    [plan |-> plan_, current_step_index |-> idx + 1, retry_count |-> 0,
     data |-> Append(data, result)]

-----------------------------------------------------------------------------
(* SuperAgent._synthesizer_node and the tail of SuperAgent.query *)

RECURSIVE PyRepr(_), ReprElems(_), ReprMembers(_)
\* repr() of a value json.loads returned
PyRepr(val) ==
    IF val.k = "str" THEN "'" \o val.v \o "'"
    ELSE IF val.k = "null" THEN "None"
    ELSE IF val.k = "list" THEN "[" \o ReprElems(val.v) \o "]"
    ELSE "{" \o ReprMembers(val.v) \o "}"

ReprElems(values) ==
    IF Len(values) = 0 THEN ""
    ELSE PyRepr(values[1]) \o
         (IF Len(values) = 1 THEN "" ELSE ", " \o ReprElems(Tail(values)))

ReprMembers(members) ==
    IF Len(members) = 0 THEN ""
    ELSE "'" \o members[1].key \o "': " \o PyRepr(members[1].val) \o
         (IF Len(members) = 1 THEN "" ELSE ", " \o ReprMembers(Tail(members)))

\* str(value)
PyStr(val) == IF val.k = "str" THEN val.v ELSE PyRepr(val)

\* bool(value)
Truthy(val) == IF val.k = "null" THEN FALSE ELSE Len(val.v) > 0

\* one accumulated result as the dict json.dumps receives
RecordJson(rec) ==
    IF "district" \in DOMAIN rec
    THEN JObj(<<Member("district", JStr(rec.district))>>)
    ELSE JObj(<<Member("botanical_name", JStr(rec.botanical_name))>>)

ResultJson(result) ==
    JObj((IF result.error THEN <<Member("error", JStr("connection lost"))>> ELSE <<>>) \o
         <<Member("results",
                  JList([n \in 1..Len(result.results) |-> RecordJson(result.results[n])])),
           Member("summary", JStr(result.summary))>>)

\* all_results of line 254
AllResults(research_data_, gis_data_, iucn_data_) ==
    research_data_ \o gis_data_ \o iucn_data_

MAX_CONTEXT_CHARS == 8000
TruncationMarker == "... [TRUNCATED]"

\* Truncate that cuts a context of exactly the budget as well
Truncate_AtBudget(context) ==
    IF Len(context) >= MAX_CONTEXT_CHARS
    THEN Slice(context, 0, MAX_CONTEXT_CHARS) \o TruncationMarker
    ELSE context

\* lines 264-266
Truncate(context) ==
    IF Len(context) > MAX_CONTEXT_CHARS
    THEN Slice(context, 0, MAX_CONTEXT_CHARS) \o TruncationMarker
    ELSE context

\* json.dumps(all_results, default=str) of line 259
Serialized(research_data_, gis_data_, iucn_data_) ==
    LET all_results == AllResults(research_data_, gis_data_, iucn_data_)
    IN  JsonDumps(JList([n \in 1..Len(all_results) |-> ResultJson(all_results[n])]))

\* context as the synthesis prompt receives it
SynthContext(research_data_, gis_data_, iucn_data_) ==
    Truncate(Serialized(research_data_, gis_data_, iucn_data_))

NoAnswerText == "No answer generated."
FailedText == "Failed to synthesize answer."

\* Synthesis whose handler catches the decoding error only: a parsed value
\* that is no object passes through
Synthesis_OnlyDecodeErrors(outcome) ==
    LET r == IF outcome.raised THEN JsonFail ELSE JsonLoads(outcome.content)
        failed == [final_data |-> JObj(<<Member("answer", JStr(FailedText))>>),
                   answer |-> FailedText]
    IN  IF ~r.ok THEN failed
        ELSE IF r.val.k # "obj" THEN [final_data |-> r.val, answer |-> NoAnswerText]
        ELSE LET answer == DictGet(r.val, "answer", JStr(NoAnswerText))
             IN  [final_data |-> r.val,
                  answer |-> IF answer.k = "null" THEN NoAnswerText ELSE PyStr(answer)]

\* final_data and answer after the try/except and the str() of lines 300-319
Synthesis(outcome) ==
    LET r == IF outcome.raised THEN JsonFail ELSE JsonLoads(outcome.content)
        failed == [final_data |-> JObj(<<Member("answer", JStr(FailedText))>>),
                   answer |-> FailedText]
    IN  IF ~r.ok \/ r.val.k # "obj" THEN failed
        ELSE LET answer == DictGet(r.val, "answer", JStr(NoAnswerText))
             IN  [final_data |-> r.val,
                  answer |-> IF answer.k = "null" THEN NoAnswerText ELSE PyStr(answer)]

HumanMessage(content) == [type |-> "human", content |-> content]
SystemMessage(content) == [type |-> "system", content |-> content]

\* structured_output of lines 352-366: json.loads(raw_answer), else the text
\* from the first "{" to the last "}", else the raw text as the answer
StructuredOutput(raw_answer) ==
    LET r == JsonLoads(raw_answer)
        first == Find("{", raw_answer)
        last == RFind("}", raw_answer)
        m == IF first >= 0 /\ last > first
             THEN JsonLoads(Slice(raw_answer, first, last + 1)) ELSE JsonFail
    IN  IF r.ok THEN r.val
        ELSE IF m.ok THEN m.val
        ELSE JObj(<<Member("answer", JStr(raw_answer))>>)

\* whether fetch_wikipedia_image is called (line 369)
AsksImage(raw_answer) ==
    Truthy(DictGet(StructuredOutput(raw_answer), "image_query", JNull))

\* the dict query returns (lines 368-391); image is the fetcher's result,
\* stored under "image_url" of structured_output when it is truthy
QueryResult(raw_answer, image, gis_data_, plan_) ==
    LET out == StructuredOutput(raw_answer)
    IN  [answer |-> DictGet(out, "answer", JNull),
         locations |-> DictGet(out, "locations", JList(<<>>)),
         gis_data |-> gis_data_,
         image_url |-> IF AsksImage(raw_answer) /\ image # ""
                       THEN JStr(image) ELSE DictGet(out, "image_url", JNull),
         final_answer |-> raw_answer,
         plan |-> plan_]

NoResponse == [answer |-> JNull, locations |-> JList(<<>>), gis_data |-> <<>>,
               image_url |-> JNull, final_answer |-> "", plan |-> <<>>]

-----------------------------------------------------------------------------
(* BaseAgent._extract_plant_names *)

\* common_name_map (lines 58-69), in the order of the dict
CommonNameMap ==
    <<[key |-> "tulsi", variants |-> {"tulsi", "holy basil", "ocimum sanctum"}],
      [key |-> "neem", variants |-> {"neem", "azadirachta indica"}],
      [key |-> "turmeric", variants |-> {"turmeric", "curcuma longa"}],
      [key |-> "ashwagandha", variants |-> {"ashwagandha", "withania somnifera"}],
      [key |-> "moringa", variants |-> {"moringa", "drumstick tree", "moringa oleifera"}],
      [key |-> "galangal", variants |-> {"galangal", "greater galangal", "alpinia galanga"}],
      [key |-> "karonda", variants |-> {"karonda", "christ's thorn", "carissa carandas"}],
      [key |-> "jasmine", variants |-> {"jasmine", "jasminum"}],
      [key |-> "ashoka", variants |-> {"ashoka", "saraca asoca"}],
      [key |-> "kalmegh", variants |-> {"kalmegh", "green chiretta", "andrographis paniculata"}]>>

Entries == 1..Len(CommonNameMap)

\* stopwords of line 79
ExtractStopwords ==
    {"tell", "about", "what", "where", "when", "which", "this", "that", "plant",
     "herb", "tree", "grow", "find", "benefits", "uses", "today", "raining"}

\* words shorter than this are skipped (line 83)
MinWordLen == 4
\* a fuzzy match needs a score above this (line 87)
FuzzyThreshold == 79

Max2(a, b) == IF a >= b THEN a ELSE b

RECURSIVE LcsRow(_, _, _, _)
\* One row of the table of longest common subsequences: prev is the row of
\* the prefix of a before the character c, row the part built so far; both
\* hold column 0 first, so row is at column Len(row).
LcsRow(prev, c, b, row) ==
    IF Len(row) > Len(b) THEN row
    ELSE LET j == Len(row)
         IN  LcsRow(prev, c, b,
                    Append(row, IF c = CharAt(b, j) THEN prev[j] + 1
                                ELSE Max2(prev[j + 1], row[j])))

RECURSIVE LcsFrom(_, _, _, _)
LcsFrom(a, i, b, prev) ==
    IF i > Len(a) THEN prev[Len(b) + 1]
    ELSE LcsFrom(a, i + 1, b, LcsRow(prev, CharAt(a, i), b, <<0>>))

\* length of the longest common subsequence of a and b
Lcs(a, b) == LcsFrom(a, 1, b, [j \in 1..(Len(b) + 1) |-> 0])

\* rapidfuzz fuzz.ratio(a, b): 100 * (1 - d / (len(a) + len(b))) with d the
\* insert/delete distance len(a) + len(b) - 2 * lcs, kept as a fraction
FuzzRatio(a, b) == [num |-> 200 * Lcs(a, b), den |-> Len(a) + Len(b)]

\* score of x above score of y
Above(x, y) == x.num * y.den > y.num * x.den

\* process.extractOne(word, common_name_map.keys(), scorer=fuzz.ratio): the
\* first key of the highest score, with the score
ExtractOne(word) ==
    LET score == [n \in Entries |-> FuzzRatio(word, CommonNameMap[n].key)]
        best == CHOOSE n \in Entries :
                    /\ \A m \in Entries : ~Above(score[m], score[n])
                    /\ \A m \in 1..(n - 1) : Above(score[n], score[m])
    IN  [entry |-> best, score |-> score[best]]

\* match[1] > 79
Accepted(match) == match.score.num > FuzzyThreshold * match.score.den

\* names found by the exact checks (lines 72-74)
ExactNames(query_lower) ==
    UNION {CommonNameMap[n].variants :
              n \in {m \in Entries : AnyIn(CommonNameMap[m].variants, query_lower)}}

\* words the fuzzy checks look at (line 83)
FuzzyWords(query_lower) ==
    {w \in {Split(query_lower)[n] : n \in 1..Len(Split(query_lower))} :
        ~(Len(w) < MinWordLen \/ w \in ExtractStopwords)}

\* names found by the fuzzy checks (lines 81-94)
FuzzyNames(query_lower) ==
    UNION {CommonNameMap[ExtractOne(w).entry].variants :
              w \in {v \in FuzzyWords(query_lower) : Accepted(ExtractOne(v))}}

\* _extract_plant_names: list(set(found_names)), as the set
ExtractPlantNames(query) ==
    ExactNames(Lower(query)) \cup FuzzyNames(Lower(query))

\* Inputs of the extractor: the keys with one character dropped, replaced,
\* inserted or swapped with its neighbour, and everyday sentences.
DropAt(s, i) == SubSeq(s, 1, i - 1) \o SubSeq(s, i + 1, Len(s))
PutAt(s, i, c) == SubSeq(s, 1, i - 1) \o c \o SubSeq(s, i + 1, Len(s))
InsertAt(s, i, c) == SubSeq(s, 1, i - 1) \o c \o SubSeq(s, i, Len(s))
SwapAt(s, i) ==
    SubSeq(s, 1, i - 1) \o CharAt(s, i + 1) \o CharAt(s, i) \o SubSeq(s, i + 2, Len(s))

TypoLetters == {"x", "a"}

Typos(k) ==
    {DropAt(k, i) : i \in 1..Len(k)}
        \cup {PutAt(k, i, c) : i \in 1..Len(k), c \in TypoLetters}
        \cup {InsertAt(k, i, c) : i \in 1..(Len(k) + 1), c \in TypoLetters}
        \cup {SwapAt(k, i) : i \in 1..(Len(k) - 1)}

TypoQueries ==
    {"Tell me about " \o t : t \in UNION {Typos(CommonNameMap[n].key) : n \in Entries}}

GenericQueries ==
    {"Is it raining today?", "Good morning", "What is the weather",
     "Hello there", "Thanks for your answer", "My garden needs water"}

ExtractQueries ==
    TypoQueries \cup GenericQueries
        \cup {"Tell me about Tulsi", "Tell me about Tusli", "Benefits of Ashwaganda"}


-----------------------------------------------------------------------------
(* BaseAgent: the search cascade and the validation of its results.         *)
(* A record of a collection is a function from its property names to their *)
(* values; a missing property is a name outside its domain.                 *)

\* d.get(k, default)
Get(d, k, default) == IF k \in DOMAIN d THEN d[k] ELSE default

\* s[:n] of a list
FirstN(s, n) == SubSeq(s, 1, IF n < Len(s) THEN n ELSE Len(s))

\* [name.lower() for name in names]
LowerAll(names) == [n \in 1..Len(names) |-> Lower(names[n])]

\* the lists holding each member of S once: the orders list(set(...)) can give
Orders(S) ==
    {f \in [1..Cardinality(S) -> S] :
        \A i, j \in 1..Cardinality(S) : f[i] = f[j] => i = j}

\* Records the collections of the plant domains can hold.
NeemRecord ==
    [botanical_name |-> "Azadirachta indica",
     common_names |-> <<"Neem", "Margosa">>,
     pharmacological_activities |-> "Antibacterial",
     iucn_status |-> "Least Concern"]
TulsiRecord ==
    [botanical_name |-> "Ocimum sanctum", common_names |-> <<"Tulsi">>]
BarkRecord ==
    [common_names |-> <<"Indian lilac">>, text_content |-> "Bark of the neem tree"]

Catalogue == <<NeemRecord, TulsiRecord, BarkRecord>>

\* the runs of at most cap consecutive records
Slices(records, cap) ==
    {SubSeq(records, p[1], p[2]) :
        p \in {q \in (1..Len(records)) \X (0..Len(records)) :
                  q[2] >= q[1] - 1 /\ q[2] - q[1] + 1 <= cap}}

\* What one query of the search engine gives: an exception, or the objects
\* found, at most cap of them.
Failure == [ok |-> FALSE, objects |-> <<>>]
Found(objects) == [ok |-> TRUE, objects |-> objects]
EngineOutcomes(records, cap) ==
    {Failure} \cup {Found(objects) : objects \in Slices(records, cap)}

\* weaviate_manager.connect(), or a client that is ready already: connected;
\* the connection raised, leaving no client; a client that is not ready.
ConnectOutcomes == {"ok", "refused", "not_ready"}
Connected(outcome) == outcome = "ok"
\* weaviate_manager.client is set after the attempt
ClientAfter(outcome) == outcome # "refused"

\* a plant name appears in the record's botanical name, in one of its common
\* names or, for the filtered search, in its text (lines 180-183, 252-254)
MatchesNames(plant_names, props, with_text) ==
    LET botanical_name == Lower(Get(props, "botanical_name", ""))
        common_names == LowerAll(Get(props, "common_names", <<>>))
        text_content == Lower(Get(props, "text_content", ""))
    IN  \E n \in 1..Len(plant_names) :
            \/ Contains(plant_names[n], botanical_name)
            \/ \E c \in 1..Len(common_names) : Contains(plant_names[n], common_names[c])
            \/ with_text /\ Contains(plant_names[n], text_content)

RECURSIVE ValidatedLoop(_, _, _, _, _)
\* the loop of lines 173-188 from hit i on
ValidatedLoop(objects, i, plant_names, limit, validated_results) ==
    IF i > Len(objects) THEN validated_results
    ELSE LET kept == IF MatchesNames(plant_names, objects[i], TRUE)
                     THEN Append(validated_results, objects[i])
                     ELSE validated_results
         IN  IF Len(kept) >= limit THEN kept
             ELSE ValidatedLoop(objects, i + 1, plant_names, limit, kept)

\* lines 170-194: the value _search_with_plant_filter returns from its own
\* semantic search
FilterFallback(outcome, plant_names, limit) ==
    IF outcome.ok THEN ValidatedLoop(outcome.objects, 1, plant_names, limit, <<>>)
    ELSE <<>>

\* lines 228-235: the value _search returns from the keyword search
Bm25Return_Raises(outcome) ==
    [raised |-> ~outcome.ok, hits |-> outcome.objects]

Bm25Return(outcome) ==
    [raised |-> FALSE, hits |-> IF outcome.ok THEN outcome.objects ELSE <<>>]

RECURSIVE JoinComma(_)
\* ', '.join(names)
JoinComma(names) ==
    IF Len(names) = 0 THEN ""
    ELSE IF Len(names) = 1 THEN names[1]
    ELSE names[1] \o ", " \o JoinComma(Tail(names))

MismatchWarning(result) ==
    "Found information about " \o Get(result, "botanical_name", "Unknown")
        \o " instead of requested plant"

NoDirectWarning(plant_names) ==
    "No direct matches found for '" \o JoinComma(plant_names)
        \o "'. Showing semantically similar plants."

RECURSIVE ValidateLoop(_, _, _, _)
\* the loop of lines 246-261 from result i on
ValidateLoop(results, i, plant_names, acc) ==
    IF i > Len(results) THEN acc
    ELSE ValidateLoop(results, i + 1, plant_names,
            IF MatchesNames(plant_names, results[i], FALSE)
            THEN [acc EXCEPT !.results = Append(@, results[i])]
            ELSE [acc EXCEPT !.warnings = Append(@, MismatchWarning(results[i]))])

ValidateResults_DropsAll(results, plant_names) ==
    IF plant_names = <<>> THEN [results |-> results, warnings |-> <<>>]
    ELSE ValidateLoop(results, 1, plant_names, [results |-> <<>>, warnings |-> <<>>])

\* BaseAgent._validate_results, plant_names being what the extractor gives
\* for the query
ValidateResults(results, plant_names) ==
    IF plant_names = <<>> THEN [results |-> results, warnings |-> <<>>]
    ELSE LET checked == ValidateLoop(results, 1, plant_names,
                                     [results |-> <<>>, warnings |-> <<>>])
         IN  IF checked.results = <<>> /\ results # <<>>
             THEN [results |-> results,
                   warnings |-> Append(checked.warnings, NoDirectWarning(plant_names))]
             ELSE [results |-> IF checked.results # <<>> THEN checked.results ELSE results,
                   warnings |-> checked.warnings]

\* ---- ResearchAgent.process_query and IUCNAgent.process_query ----

PharmChars == 500
UseChars == 100

\* s[:n] + "..." if len(s) > n else s
Shorten(text, n) == IF Len(text) > n THEN SubSeq(text, 1, n) \o "..." ELSE text

ResearchInfo(h) ==
    [botanical_name |-> Get(h, "botanical_name", "Unknown"),
     common_names |-> Get(h, "common_names", <<>>),
     traditional_uses |->
        [u \in 1..Len(Get(h, "traditional_uses", <<>>)) |->
            Shorten(Get(h, "traditional_uses", <<>>)[u], UseChars)],
     pharmacology |-> Shorten(Get(h, "pharmacological_activities", ""), PharmChars),
     major_constituents |-> Get(h, "major_constituents", <<>>),
     safety_info |-> Get(h, "safety_info", "Not specified")]

IucnInfo(h) ==
    [botanical_name |-> Get(h, "botanical_name", "Unknown"),
     common_names |-> Get(h, "common_names", <<>>),
     iucn_status |-> Get(h, "iucn_status", "Not Evaluated"),
     threat_info |-> Get(h, "threat_info", "No specific threats identified")]

\* min(1, found / limit)
Confidence(found, limit) ==
    IF found >= limit THEN [num |-> 1, den |-> 1] ELSE [num |-> found, den |-> limit]

\* the dictionary process_query returns (research lines 16-47, conservation
\* lines 16-37), from what _validate_results gave
PlantResponse(name, checked, limit) ==
    LET plants == [n \in 1..Len(checked.results) |->
                      IF name = "ResearchAgent" THEN ResearchInfo(checked.results[n])
                      ELSE IucnInfo(checked.results[n])]
    IN  [agent |-> name,
         results |-> plants,
         summary |-> ToString(Len(plants)) \o
                     (IF name = "ResearchAgent" THEN " medicinal matches"
                      ELSE " conservation matches"),
         confidence |-> Confidence(Len(plants), limit),
         warnings |-> checked.warnings]

\* ---- GISAgent.process_query ----

IsLetter(c) == c \in DOMAIN LowerOf \/ c \in DOMAIN UpperOf

\* index of the last character of the run of letters starting at i
RunEnd(s, i) ==
    LET stops == {j \in i..Len(s) : ~IsLetter(CharAt(s, j))}
    IN  IF stops = {} THEN Len(s)
        ELSE (CHOOSE j \in stops : \A k \in stops : j <= k) - 1

LetterAt(s, i) == i <= Len(s) /\ IsLetter(CharAt(s, i))

RECURSIVE FindNames(_, _)
\* re.findall(r'\b([a-zA-Z]+(?: [a-zA-Z]+(?:-[a-zA-Z]+)?)?)\b', s) from index
\* i on, for text of letters, spaces, hyphens and punctuation: a word, with
\* the word after one space and, after that, a hyphenated part
FindNames(s, i) ==
    IF i > Len(s) THEN <<>>
    ELSE IF ~IsLetter(CharAt(s, i)) THEN FindNames(s, i + 1)
    ELSE LET first == RunEnd(s, i)
             second == IF first < Len(s) /\ CharAt(s, first + 1) = " "
                          /\ LetterAt(s, first + 2)
                       THEN RunEnd(s, first + 2) ELSE first
             third == IF second > first /\ second < Len(s)
                         /\ CharAt(s, second + 1) = "-" /\ LetterAt(s, second + 2)
                      THEN RunEnd(s, second + 2) ELSE second
         IN  <<SubSeq(s, i, third)>> \o FindNames(s, third + 1)

\* stopwords_set of lines 30-38
GisStopwords ==
    {"where", "what", "when", "how", "why", "does", "is", "are", "can", "could", "would",
     "find", "show", "give", "tell", "say", "know", "location", "map", "district", "place",
     "which", "the", "a", "an", "in", "on", "at", "from", "to", "and", "or", "but", "with",
     "plant", "tree", "flower", "herb", "shrub", "weed", "seed", "fruit", "leaf", "root", "stem",
     "grown", "found", "grow", "exist", "live", "specification", "specify", "about", "me", "us",
     "detail", "details", "info", "information", "description", "describe", "uses", "medical",
     "medicine", "medicinal", "family", "unknown", "name", "botanical", "common"}

RECURSIVE KeepNames(_)
\* lines 40-46: the matches whose first word is no stopword
KeepNames(matches) ==
    IF Len(matches) = 0 THEN <<>>
    ELSE (IF Lower(Split(Head(matches))[1]) \in GisStopwords THEN <<>>
          ELSE <<Head(matches)>>) \o KeepNames(Tail(matches))

\* lines 18-49: the names the extractor gave, in the order of its list, or
\* else the names the pattern finds
GisPlantNames(extracted, query) ==
    IF Len(extracted) > 0 THEN extracted ELSE KeepNames(FindNames(query, 1))

RECURSIVE TitleFrom(_, _)
TitleFrom(s, after_letter) ==
    IF Len(s) = 0 THEN ""
    ELSE (IF after_letter THEN LowerChar(CharAt(s, 1)) ELSE UpperChar(CharAt(s, 1)))
            \o TitleFrom(Tail(s), IsLetter(CharAt(s, 1)))

\* s.title()
Title(s) == TitleFrom(s, FALSE)

\* lines 66-78
SearchTerms(plant_names, query) ==
    LET candidates == IF Len(plant_names) > 0 THEN plant_names ELSE <<query>>
    IN  UNION {{Lower(candidates[n]), Title(candidates[n])} : n \in 1..Len(candidates)}

\* Records the GISLocation collection can hold.
Mysore == [district |-> "Mysore", soils |-> "Red"]
Bangalore ==
    [district |-> "Bangalore",
     location |-> [latitude |-> "12.9", longitude |-> "77.5"],
     soils |-> "Red"]
Belgaum ==
    [district |-> "Belgaum",
     location |-> [latitude |-> "15.8", longitude |-> "74.5"],
     soils |-> "Black"]
Unnamed == [soils |-> "Laterite"]
BangaloreNorth ==
    [district |-> "Bangalore",
     location |-> [latitude |-> "13.1", longitude |-> "77.6"]]

\* further districts of the collection, in the order the engine returns them
OtherDistricts ==
    <<"Tumkur", "Kolar", "Hassan", "Mandya", "Udupi", "Bidar", "Gadag",
      "Raichur", "Kodagu">>

Districts ==
    <<Mysore, Bangalore, Belgaum, Unnamed, BangaloreNorth>>
        \o [n \in 1..Len(OtherDistricts) |->
               [district |-> OtherDistricts[n], soils |-> "Red"]]

FetchLimit == 100
Bm25Limit == 20

\* lines 102-109 with a reversed loop
DistrictEntries_Reversed(objects) ==
    IF Len(objects) = 0 THEN <<>>
    ELSE [n \in 1..Len(objects) |->
            [district |-> Get(objects[Len(objects) + 1 - n], "district", ""),
             soils |-> Get(objects[Len(objects) + 1 - n], "soils", "Unknown")]]

RECURSIVE DistrictEntries(_)
\* lines 102-109: one entry for each object that has a district
DistrictEntries(objects) ==
    IF Len(objects) = 0 THEN <<>>
    ELSE (IF Get(Head(objects), "district", "") # ""
          THEN <<[district |-> Head(objects).district,
                  soils |-> Get(Head(objects), "soils", "Unknown")]>>
          ELSE <<>>) \o DistrictEntries(Tail(objects))

\* the characters in the order of their code points
CodeOrder == " '-ABCDEFGHIJKLMNOPQRSTUVWXYZabcdefghijklmnopqrstuvwxyz"
Code(c) == Find(c, CodeOrder)

RECURSIVE StrLess(_, _)
\* a < b of two strings
StrLess(a, b) ==
    IF Len(b) = 0 THEN FALSE
    ELSE IF Len(a) = 0 THEN TRUE
    ELSE IF CharAt(a, 1) = CharAt(b, 1) THEN StrLess(Tail(a), Tail(b))
    ELSE Code(CharAt(a, 1)) < Code(CharAt(b, 1))

RECURSIVE Sorted(_)
\* sorted(list(S)) of a set of strings
Sorted(S) ==
    IF S = {} THEN <<>>
    ELSE LET least == CHOOSE x \in S : \A y \in S \ {x} : StrLess(x, y)
         IN  <<least>> \o Sorted(S \ {least})

MaxNamed == 10

\* lines 114-123 naming the districts in the order they were found
GisSummary_Unsorted(results, target_plant) ==
    IF Len(results) = 0
    THEN "No specific district data found for '" \o target_plant \o "' in the database."
    ELSE LET found == [n \in 1..Len(results) |-> results[n].district]
             districts_str ==
                IF Len(found) > MaxNamed
                THEN JoinComma(FirstN(found, MaxNamed)) \o " and "
                        \o ToString(Len(found) - MaxNamed) \o " others"
                ELSE JoinComma(found)
         IN  "Found '" \o target_plant \o "' in " \o ToString(Len(found))
                \o " districts: " \o districts_str \o "."

\* lines 114-123
GisSummary(results, target_plant) ==
    IF Len(results) = 0
    THEN "No specific district data found for '" \o target_plant \o "' in the database."
    ELSE LET unique_districts == Sorted({results[n].district : n \in 1..Len(results)})
             districts_str ==
                IF Len(unique_districts) > MaxNamed
                THEN JoinComma(FirstN(unique_districts, MaxNamed)) \o " and "
                        \o ToString(Len(unique_districts) - MaxNamed) \o " others"
                ELSE JoinComma(unique_districts)
         IN  "Found '" \o target_plant \o "' in " \o ToString(Len(unique_districts))
                \o " districts: " \o districts_str \o "."

\* lines 125-129
GisResponse(results, target_plant) ==
    [agent |-> "GISAgent",
     results |-> results,
     summary |-> GisSummary(results, target_plant)]

\* line 133, e being the AttributeError of line 64 when there is no client
GisFailure ==
    [error |-> "'NoneType' object has no attribute 'collections'",
     results |-> <<>>,
     summary |-> "GIS Search failed due to internal error."]

-----------------------------------------------------------------------------
(* The state machine *)

NoCalls == [planner |-> 0, router |-> 0, synthesizer |-> 0]
NoAgentCalls == [research |-> 0, gis |-> 0, iucn |-> 0]
NoResult == [results |-> <<>>, error |-> FALSE, summary |-> ""]
NoSession == [queries |-> 0, served |-> 0, completed |-> 0]
NoPeer == [pc |-> "idle", question |-> "", chat_history |-> <<>>]
NoAgent == [pc |-> "idle"]

\* operator.add, the reducer of AgentState.chat_history, with its arguments
\* dropped but for the update
AddMessages_Overwrites(left, right) == right

\* operator.add, the reducer of AgentState.chat_history (line 25)
AddMessages(left, right) == left \o right

Init ==
    /\ pc = "idle"
    /\ question = ""
    /\ plan = <<>>
    /\ current_step_index = 0
    /\ research_data = <<>>
    /\ gis_data = <<>>
    /\ iucn_data = <<>>
    /\ retry_count = 0
    /\ chat_history = <<>>
    /\ final_answer = ""
    /\ planner_llm = NotCalled
    /\ route = "none"
    /\ router_llm = NotCalled
    /\ llm_calls = NoCalls
    /\ agent_calls = NoAgentCalls
    /\ last_query = ""
    /\ last_result = NoResult
    /\ response = NoResponse
    /\ checkpoint = <<>>
    /\ session = NoSession
    /\ peer = NoPeer
    /\ planner_prompt = NoPrompt
    /\ synth_llm = NotCalled
    /\ synth_context = NoPrompt
    /\ agent = NoAgent

\* SuperAgent.query up to app.invoke (lines 335-349): the inputs overwrite the
\* state the checkpointer holds for the thread; chat_history, under
\* operator.add, gains nothing. stored_history and stored_answer are what the
\* instance's checkpointer holds for the thread identifier.
Invoke(q, stored_history, stored_answer) ==
    /\ question' = q
    /\ plan' = <<>>
    /\ current_step_index' = 0
    /\ research_data' = <<>>
    /\ gis_data' = <<>>
    /\ iucn_data' = <<>>
    /\ retry_count' = 0
    /\ chat_history' = AddMessages(stored_history, <<>>)
    /\ checkpoint' = chat_history'
    /\ final_answer' = stored_answer
    /\ planner_llm' = NotCalled
    /\ route' = "none"
    /\ router_llm' = NotCalled
    /\ llm_calls' = NoCalls
    /\ agent_calls' = NoAgentCalls
    /\ last_query' = ""
    /\ last_result' = NoResult
    /\ response' = NoResponse
    /\ planner_prompt' = NoPrompt
    /\ synth_llm' = NotCalled
    /\ synth_context' = NoPrompt
    /\ pc' = "planner"
    /\ UNCHANGED <<peer, agent>>

\* the first query of a new SuperAgent
Query ==
    /\ pc = "idle"
    /\ \E q \in Questions : Invoke(q, checkpoint, final_answer)
    /\ session' = [session EXCEPT !.queries = @ + 1]

\* Largest number of queries of one session identifier
MaxTurns == 3

\* Questions of a conversation: one that takes the language-model path and a
\* follow-up that takes the fast path
SessionQuestions == {"Compare", "Where does it grow?"}

\* a query on the SuperAgent that served the session before (app.py keeps one
\* instance and calls agent.query with the user's name as session_id)
SessionQuery ==
    /\ pc \in {"idle", "done", "crashed"}
    /\ session.queries < MaxTurns
    /\ \E q \in SessionQuestions : Invoke(q, checkpoint, final_answer)
    /\ session' = [session EXCEPT !.queries = @ + 1]

\* POST /query (main.py lines 57-69): a new SuperAgent, so a new MemorySaver,
\* for each request
QueryApi ==
    /\ pc \in {"idle", "done", "crashed"}
    /\ session.queries < MaxTurns
    /\ \E q \in SessionQuestions : Invoke(q, <<>>, "")
    /\ session' = [session EXCEPT !.queries = @ + 1, !.served = 0]

\* _planner_node; a node that returns None leaves the state as it is
Planner ==
    /\ pc = "planner"
    /\ \E outcome \in (IF IsFastPath(question) THEN {NotCalled} ELSE PlannerOutcomes) :
        LET u == PlannerNode(question, outcome)
        IN  /\ planner_llm' = outcome
            /\ llm_calls' = IF IsFastPath(question) THEN llm_calls
                            ELSE [llm_calls EXCEPT !.planner = @ + 1]
            /\ IF u.none
               THEN UNCHANGED <<plan, current_step_index, retry_count>>
               ELSE /\ plan' = u.plan
                    /\ current_step_index' = u.current_step_index
                    /\ retry_count' = u.retry_count
    /\ planner_prompt' = IF IsFastPath(question) THEN NoPrompt
                         ELSE PlannerPrompt(HistoryStr(chat_history), question)
    /\ checkpoint' = chat_history
    /\ pc' = "router"
    /\ UNCHANGED <<agent, question, research_data, gis_data, iucn_data, chat_history,
                   final_answer, route, router_llm, agent_calls, last_query,
                   last_result, response, session, peer, synth_llm,
                   synth_context>>

\* _router_node (returns {}) followed by the conditional edge _route_decision
Router ==
    /\ pc = "router"
    /\ \E asks \in {RouterAsksLlm(plan, current_step_index)} :
        /\ \E outcome \in (IF asks THEN RouterOutcomes ELSE {NotCalled}) :
            LET decision == RouteDecision(plan, current_step_index, outcome)
            IN  /\ router_llm' = outcome
                /\ route' = decision
                /\ pc' = EdgeTarget(decision)
        /\ llm_calls' = IF asks THEN [llm_calls EXCEPT !.router = @ + 1] ELSE llm_calls
    /\ planner_llm' = NotCalled
    /\ checkpoint' = chat_history
    /\ UNCHANGED <<agent, question, plan, current_step_index, research_data, gis_data,
                   iucn_data, retry_count, chat_history, final_answer,
                   agent_calls, last_query, last_result, response, session,
                   peer, planner_prompt, synth_llm, synth_context>>

\* the part common to the three agent nodes: inject context, call the worker,
\* return the update; an exception in the node ends the invocation
AgentNode(worker, data) ==
    LET idx == current_step_index
        inj == InjectContext(plan[idx + 1], research_data)
    IN  IF inj.raised
        THEN /\ pc' = "crashed"
             /\ UNCHANGED <<plan, current_step_index, retry_count, research_data,
                            gis_data, iucn_data, agent_calls, last_query,
                            last_result, checkpoint>>
        ELSE \E result \in WorkerResults(worker) :
             LET u == IF worker = "research"
                      THEN ResearchUpdate(plan, idx, retry_count, data, inj.query, result)
                      ELSE DomainUpdate(plan, idx, retry_count, data, inj.query, result)
             IN  /\ last_query' = inj.query
                 /\ last_result' = result
                 /\ agent_calls' = [agent_calls EXCEPT ![worker] = @ + 1]
                 /\ plan' = u.plan
                 /\ current_step_index' = u.current_step_index
                 /\ retry_count' = u.retry_count
                 /\ research_data' = IF worker = "research" THEN u.data ELSE research_data
                 /\ gis_data' = IF worker = "gis" THEN u.data ELSE gis_data
                 /\ iucn_data' = IF worker = "iucn" THEN u.data ELSE iucn_data
                 /\ checkpoint' = chat_history
                 /\ pc' = "router"

ResearchNode ==
    /\ pc = "research_agent"
    /\ AgentNode("research", research_data)
    /\ router_llm' = NotCalled
    /\ UNCHANGED <<agent, question, chat_history, final_answer, planner_llm, route,
                   llm_calls, response, session, peer, planner_prompt,
                   synth_llm, synth_context>>

GisNode ==
    /\ pc = "gis_agent"
    /\ AgentNode("gis", gis_data)
    /\ router_llm' = NotCalled
    /\ UNCHANGED <<agent, question, chat_history, final_answer, planner_llm, route,
                   llm_calls, response, session, peer, planner_prompt,
                   synth_llm, synth_context>>

IucnNode ==
    /\ pc = "iucn_agent"
    /\ AgentNode("iucn", iucn_data)
    /\ router_llm' = NotCalled
    /\ UNCHANGED <<agent, question, chat_history, final_answer, planner_llm, route,
                   llm_calls, response, session, peer, planner_prompt,
                   synth_llm, synth_context>>

\* _synthesizer_node, then END
Synthesizer ==
    /\ pc = "synthesizer"
    /\ synth_context' = SynthContext(research_data, gis_data, iucn_data)
    /\ \E outcome \in SynthOutcomes :
        LET syn == Synthesis(outcome)
        IN  /\ synth_llm' = outcome
            /\ final_answer' = JsonDumps(syn.final_data)
            /\ chat_history' = AddMessages(chat_history,
                   <<HumanMessage(question), SystemMessage(syn.answer)>>)
    /\ checkpoint' = chat_history'
    /\ llm_calls' = [llm_calls EXCEPT !.synthesizer = @ + 1]
    /\ pc' = "returning"
    /\ router_llm' = NotCalled
    /\ UNCHANGED <<agent, question, plan, current_step_index, research_data, gis_data,
                   iucn_data, retry_count, planner_llm, route,
                   agent_calls, last_query, last_result, response, session,
                   peer, planner_prompt>>

\* SuperAgent.query after app.invoke (lines 351-391)
QueryReturn ==
    /\ pc = "returning"
    /\ \E image \in (IF AsksImage(final_answer) THEN ImageOutcomes ELSE {""}) :
        response' = QueryResult(final_answer, image, gis_data, plan)
    /\ pc' = "done"
    /\ session' = [session EXCEPT !.served = @ + 1, !.completed = @ + 1]
    /\ synth_llm' = NotCalled
    /\ UNCHANGED <<agent, question, plan, current_step_index, research_data, gis_data,
                   iucn_data, retry_count, chat_history, final_answer,
                   planner_llm, route, router_llm, llm_calls, agent_calls,
                   last_query, last_result, checkpoint, peer, planner_prompt,
                   synth_context>>

Next ==
    \/ Query
    \/ Planner
    \/ Router
    \/ ResearchNode
    \/ GisNode
    \/ IucnNode
    \/ Synthesizer
    \/ QueryReturn

Spec == Init /\ [][Next]_vars

\* A conversation: up to MaxTurns queries with one session identifier, each
\* through agent.query on the instance at hand or through POST /query
SessionNext ==
    \/ SessionQuery
    \/ QueryApi
    \/ Planner
    \/ Router
    \/ ResearchNode
    \/ GisNode
    \/ IucnNode
    \/ Synthesizer
    \/ QueryReturn

SessionSpec == Init /\ [][SessionNext]_vars

\* A second invocation of SuperAgent.query on the same instance and thread
\* identifier (app.py shares one SuperAgent among its users), by the two
\* points where it meets the checkpointer: app.invoke reads what is stored
\* for the thread, and the synthesizer's step stores the history the
\* invocation holds with its turn added. query takes no lock.
PeerQuestions == {"What is Tulsi?"}
PeerAnswers == {"Tulsi is a medicinal plant.", FailedText}

PeerInvoke ==
    /\ peer.pc = "idle"
    /\ \E q \in PeerQuestions :
        peer' = [pc |-> "running", question |-> q,
                 chat_history |-> AddMessages(checkpoint, <<>>)]
    /\ checkpoint' = peer'.chat_history
    /\ UNCHANGED <<agent, pc, question, plan, current_step_index, research_data,
                   gis_data, iucn_data, retry_count, chat_history, final_answer,
                   planner_llm, route, router_llm, llm_calls, agent_calls,
                   last_query, last_result, response, session, planner_prompt,
                   synth_llm, synth_context>>

PeerSynthesize ==
    /\ peer.pc = "running"
    /\ \E answer \in PeerAnswers :
        peer' = [peer EXCEPT
                    !.pc = "done",
                    !.chat_history = AddMessages(@,
                        <<HumanMessage(peer.question), SystemMessage(answer)>>)]
    /\ checkpoint' = peer'.chat_history
    /\ UNCHANGED <<agent, pc, question, plan, current_step_index, research_data,
                   gis_data, iucn_data, retry_count, chat_history, final_answer,
                   planner_llm, route, router_llm, llm_calls, agent_calls,
                   last_query, last_result, response, session, planner_prompt,
                   synth_llm, synth_context>>

\* one query of a conversation
RaceQuery ==
    /\ pc = "idle"
    /\ \E q \in SessionQuestions : Invoke(q, checkpoint, final_answer)
    /\ session' = [session EXCEPT !.queries = @ + 1]

RaceNext ==
    \/ RaceQuery
    \/ Planner
    \/ Router
    \/ ResearchNode
    \/ GisNode
    \/ IucnNode
    \/ Synthesizer
    \/ QueryReturn
    \/ PeerInvoke
    \/ PeerSynthesize

RaceSpec == Init /\ [][RaceNext]_vars

\* The synthesizer over accumulated results of every size around the
\* character budget: the invocation of the question "Ocimum" at the
\* synthesizer, its one research result carrying a summary of a chosen length.
RECURSIVE Pad(_)
\* a text of n characters
Pad(n) ==
    IF n = 0 THEN ""
    ELSE IF n % 2 = 1 THEN "x" \o Pad(n - 1)
    ELSE LET half == Pad(n \div 2) IN half \o half

LongResult(n) ==
    [results |-> <<PlantRecord("Ocimum")>>, error |-> FALSE, summary |-> Pad(n)]

\* Serialized lengths run from the budget less BudgetSlack to the budget plus
\* BudgetSlack
BudgetSlack == 10

\* characters of a serialized result apart from its summary
Overhead == Len(Serialized(<<LongResult(0)>>, <<>>, <<>>))

SummaryLengths ==
    {0} \cup {MAX_CONTEXT_CHARS - Overhead + d : d \in (0 - BudgetSlack)..BudgetSlack}

ContextInit ==
    /\ pc = "synthesizer"
    /\ question = "Ocimum"
    /\ plan = <<"Ocimum">>
    /\ current_step_index = 1
    /\ \E n \in SummaryLengths :
        /\ research_data = <<LongResult(n)>>
        /\ last_result = LongResult(n)
    /\ gis_data = <<>>
    /\ iucn_data = <<>>
    /\ retry_count = 0
    /\ chat_history = <<>>
    /\ final_answer = ""
    /\ planner_llm = NotCalled
    /\ route = "synthesize"
    /\ router_llm = NotCalled
    /\ llm_calls = [NoCalls EXCEPT !.router = 1]
    /\ agent_calls = [NoAgentCalls EXCEPT !.research = 1]
    /\ last_query = "Ocimum"
    /\ response = NoResponse
    /\ checkpoint = <<>>
    /\ session = [NoSession EXCEPT !.queries = 1]
    /\ peer = NoPeer
    /\ planner_prompt = NoPrompt
    /\ synth_llm = NotCalled
    /\ synth_context = NoPrompt
    /\ agent = NoAgent

ContextNext ==
    \/ Synthesizer
    \/ QueryReturn

ContextSpec == ContextInit /\ [][ContextNext]_vars

\* The orchestrator at rest, while a retrieval agent is exercised on its own.
OrchestratorIdle ==
    /\ pc = "idle"
    /\ question = ""
    /\ plan = <<>>
    /\ current_step_index = 0
    /\ research_data = <<>>
    /\ gis_data = <<>>
    /\ iucn_data = <<>>
    /\ retry_count = 0
    /\ chat_history = <<>>
    /\ final_answer = ""
    /\ planner_llm = NotCalled
    /\ route = "none"
    /\ router_llm = NotCalled
    /\ llm_calls = NoCalls
    /\ agent_calls = NoAgentCalls
    /\ last_query = ""
    /\ last_result = NoResult
    /\ response = NoResponse
    /\ checkpoint = <<>>
    /\ session = NoSession
    /\ peer = NoPeer
    /\ planner_prompt = NoPrompt
    /\ synth_llm = NotCalled
    /\ synth_context = NoPrompt

orchestrator ==
    <<pc, question, plan, current_step_index, research_data, gis_data, iucn_data,
      retry_count, chat_history, final_answer, planner_llm, route, router_llm,
      llm_calls, agent_calls, last_query, last_result, response, checkpoint,
      session, peer, planner_prompt, synth_llm, synth_context>>

\* BaseAgent._extract_plant_names called on a query
ExtractInit ==
    /\ OrchestratorIdle
    /\ \E q \in ExtractQueries :
        agent = [pc |-> "extract", query |-> q, plant_names |-> {}]

Extract ==
    /\ agent.pc = "extract"
    /\ agent' = [agent EXCEPT !.pc = "extracted",
                              !.plant_names = ExtractPlantNames(agent.query)]
    /\ UNCHANGED orchestrator

ExtractNext == Extract

ExtractSpec == ExtractInit /\ [][ExtractNext]_vars

-----------------------------------------------------------------------------
(* One process_query call of a retrieval agent *)

MaxLimit == 2
Limits == 1..MaxLimit

AgentNames == {"ResearchAgent", "IUCNAgent", "GISAgent"}
PlantAgents == {"ResearchAgent", "IUCNAgent"}

PlantQueries == {"Tell me about neem", "Is it raining today?"}
GisQueries == {"Where does Tulsi grow?", "Is it raining today?", "Where is the map"}
AgentQueries(name) == IF name = "GISAgent" THEN GisQueries ELSE PlantQueries

NoSearchCalls ==
    [connect |-> 0, botanical |-> 0, common |-> 0, filter_semantic |-> 0,
     semantic |-> 0, bm25 |-> 0, fetch_objects |-> 0]

NoReply == [results |-> <<>>, summary |-> ""]

\* what the engine and the connection can give during this call: with the
\* data source unreachable every search raises and every connection is
\* refused
Engine(records, cap) ==
    IF agent.reachable THEN EngineOutcomes(records, cap) ELSE {Failure}
Connects ==
    IF agent.reachable THEN ConnectOutcomes ELSE {"refused"}

\* process_query is called: query and limit are its arguments; collection
\* tells whether the agent holds a collection handle from an earlier call,
\* client whether weaviate_manager holds a client.
AgentInit ==
    /\ OrchestratorIdle
    /\ \E name \in AgentNames, limit \in Limits,
          reachable \in BOOLEAN, client \in BOOLEAN, collection \in BOOLEAN :
      \E q \in AgentQueries(name) :
        agent = [pc |-> "process_query", name |-> name, query |-> q,
                 limit |-> limit, reachable |-> reachable, client |-> client,
                 collection |-> collection, plant_names |-> <<>>, index |-> 0,
                 exact_matches |-> <<>>, common_matches |-> <<>>, hits |-> <<>>,
                 target_plant |-> "", search_terms |-> {},
                 calls |-> NoSearchCalls, engine_ok |-> TRUE, raised |-> FALSE,
                 validated |-> [results |-> <<>>, warnings |-> <<>>],
                 result |-> NoReply]

\* _search, lines 200-214: the connection guard, the extractor, the choice
\* between the filtered search and the semantic search
SearchEnter ==
    /\ agent.pc = "process_query"
    /\ agent.name \in PlantAgents
    /\ \E c \in Connects :
        IF ~agent.collection /\ ~Connected(c)
        THEN agent' = [agent EXCEPT !.pc = "validate",
                                    !.client = ClientAfter(c),
                                    !.calls.connect = @ + 1,
                                    !.hits = <<>>]
        ELSE \E names \in Orders(ExtractPlantNames(agent.query)) :
                agent' = [agent EXCEPT
                            !.pc = IF Len(names) = 0 THEN "semantic" ELSE "botanical",
                            !.plant_names = names,
                            !.index = 1,
                            !.collection = TRUE,
                            !.client = IF agent.collection THEN @ ELSE TRUE,
                            !.calls.connect = IF agent.collection THEN @ ELSE @ + 1]
    /\ UNCHANGED orchestrator

\* lines 145-147 without the early return
AfterBotanical_FallsThrough(a) ==
    IF a.index < Len(a.plant_names)
    THEN [a EXCEPT !.pc = "botanical", !.index = @ + 1]
    ELSE [a EXCEPT !.pc = "common", !.index = 1]

\* lines 145-147 once the loop of lines 116-143 has handled a name
AfterBotanical(a) ==
    IF a.index < Len(a.plant_names)
    THEN [a EXCEPT !.pc = "botanical", !.index = @ + 1]
    ELSE IF Len(a.exact_matches) > 0
    THEN [a EXCEPT !.pc = "validate", !.hits = FirstN(a.exact_matches, a.limit)]
    ELSE [a EXCEPT !.pc = "common", !.index = 1]

\* lines 116-130: the botanical-name filter for one name
BotanicalFilter ==
    /\ agent.pc = "botanical"
    /\ \E o \in Engine(Catalogue, agent.limit) :
        agent' = IF o.ok
                 THEN AfterBotanical([agent EXCEPT !.calls.botanical = @ + 1,
                                                   !.engine_ok = TRUE,
                                                   !.exact_matches = @ \o o.objects])
                 ELSE [agent EXCEPT !.calls.botanical = @ + 1,
                                    !.engine_ok = FALSE,
                                    !.pc = "botanical_retry"]
    /\ UNCHANGED orchestrator

\* lines 131-143: reconnect and, connected, the same filter once more
BotanicalRetry ==
    /\ agent.pc = "botanical_retry"
    /\ \E c \in Connects, o \in Engine(Catalogue, agent.limit) :
        agent' = IF Connected(c)
                 THEN AfterBotanical([agent EXCEPT !.calls.connect = @ + 1,
                                                   !.client = TRUE,
                                                   !.calls.botanical = @ + 1,
                                                   !.engine_ok = o.ok,
                                                   !.exact_matches = @ \o o.objects])
                 ELSE AfterBotanical([agent EXCEPT !.calls.connect = @ + 1,
                                                   !.client = ClientAfter(c)])
    /\ UNCHANGED orchestrator

\* lines 166-167 once the loop of lines 151-164 has handled a name
AfterCommon(a) ==
    IF a.index < Len(a.plant_names)
    THEN [a EXCEPT !.index = @ + 1]
    ELSE IF Len(a.common_matches) > 0
    THEN [a EXCEPT !.pc = "validate", !.hits = FirstN(a.common_matches, a.limit)]
    ELSE [a EXCEPT !.pc = "filter_semantic"]

\* lines 151-164: the common-names filter for one name; a failure is logged
CommonFilter ==
    /\ agent.pc = "common"
    /\ \E o \in Engine(Catalogue, agent.limit) :
        agent' = AfterCommon([agent EXCEPT !.calls.common = @ + 1,
                                           !.engine_ok = o.ok,
                                           !.common_matches = @ \o o.objects])
    /\ UNCHANGED orchestrator

\* lines 170-194 and 211-214: the filtered search's own semantic search over
\* twice the limit, validated against the names; _search returns what it
\* gives unless it is empty
FilterSemantic ==
    /\ agent.pc = "filter_semantic"
    /\ \E o \in Engine(Catalogue, 2 * agent.limit) :
        LET results == FilterFallback(o, agent.plant_names, agent.limit)
        IN  agent' = [agent EXCEPT !.calls.filter_semantic = @ + 1,
                                   !.engine_ok = o.ok,
                                   !.hits = results,
                                   !.pc = IF Len(results) > 0 THEN "validate"
                                          ELSE "semantic"]
    /\ UNCHANGED orchestrator

\* lines 217-221: the pure semantic search
Semantic ==
    /\ agent.pc = "semantic"
    /\ \E o \in Engine(Catalogue, agent.limit) :
        agent' = IF o.ok
                 THEN [agent EXCEPT !.calls.semantic = @ + 1,
                                    !.engine_ok = TRUE,
                                    !.hits = o.objects,
                                    !.pc = "validate"]
                 ELSE [agent EXCEPT !.calls.semantic = @ + 1,
                                    !.engine_ok = FALSE,
                                    !.pc = "semantic_retry"]
    /\ UNCHANGED orchestrator

\* lines 222-226: reconnect and, connected, the semantic search once more
SemanticRetry ==
    /\ agent.pc = "semantic_retry"
    /\ \E c \in Connects, o \in Engine(Catalogue, agent.limit) :
        agent' = IF Connected(c) /\ o.ok
                 THEN [agent EXCEPT !.calls.connect = @ + 1,
                                    !.client = TRUE,
                                    !.calls.semantic = @ + 1,
                                    !.engine_ok = TRUE,
                                    !.hits = o.objects,
                                    !.pc = "validate"]
                 ELSE IF Connected(c)
                 THEN [agent EXCEPT !.calls.connect = @ + 1,
                                    !.client = TRUE,
                                    !.calls.semantic = @ + 1,
                                    !.engine_ok = FALSE,
                                    !.pc = "bm25"]
                 ELSE [agent EXCEPT !.calls.connect = @ + 1,
                                    !.client = ClientAfter(c),
                                    !.pc = "bm25"]
    /\ UNCHANGED orchestrator

\* lines 228-235: the keyword search
KeywordSearch ==
    /\ agent.pc = "bm25"
    /\ \E o \in Engine(Catalogue, agent.limit) :
        LET back == Bm25Return(o)
        IN  agent' = [agent EXCEPT !.calls.bm25 = @ + 1,
                                   !.engine_ok = o.ok,
                                   !.hits = back.hits,
                                   !.raised = back.raised,
                                   !.pc = IF back.raised THEN "raised" ELSE "validate"]
    /\ UNCHANGED orchestrator

\* process_query from the return of _search on: _validate_results, which
\* runs the extractor on the query again, and the response
Respond ==
    /\ agent.pc = "validate"
    /\ \E names \in Orders(ExtractPlantNames(agent.query)) :
        /\ Len(agent.plant_names) > 0 => names = agent.plant_names
        /\ LET checked == ValidateResults(agent.hits, names)
           IN  agent' = [agent EXCEPT
                           !.pc = "done",
                           !.validated = checked,
                           !.result = PlantResponse(agent.name, checked, agent.limit)]
    /\ UNCHANGED orchestrator

\* GISAgent.process_query, lines 17-79: the names, the target, the client
\* and the collection handle; without a client line 64 raises and line 133
\* answers
GisEnter ==
    /\ agent.pc = "process_query"
    /\ agent.name = "GISAgent"
    /\ \E extracted \in Orders(ExtractPlantNames(agent.query)), c \in Connects :
        LET plant_names == GisPlantNames(extracted, agent.query)
            target_plant == IF Len(plant_names) > 0 THEN plant_names[1] ELSE agent.query
            client == IF agent.client THEN TRUE ELSE ClientAfter(c)
            entered == [agent EXCEPT
                          !.plant_names = plant_names,
                          !.target_plant = target_plant,
                          !.client = client,
                          !.calls.connect = IF agent.client THEN @ ELSE @ + 1]
        IN  agent' = IF client
                     THEN [entered EXCEPT
                             !.pc = "fetch_objects",
                             !.search_terms = SearchTerms(plant_names, agent.query)]
                     ELSE [entered EXCEPT !.pc = "done", !.result = GisFailure]
    /\ UNCHANGED orchestrator

\* lines 85-92 and 102-129: the filter on the plants property; objects found
\* are listed and summarised, an exception is logged and leaves no results
GisFetch ==
    /\ agent.pc = "fetch_objects"
    /\ \E o \in Engine(Districts, FetchLimit) :
        agent' = IF o.ok /\ Len(o.objects) = 0
                 THEN [agent EXCEPT !.calls.fetch_objects = @ + 1,
                                    !.engine_ok = TRUE,
                                    !.pc = "gis_bm25"]
                 ELSE [agent EXCEPT
                         !.calls.fetch_objects = @ + 1,
                         !.engine_ok = o.ok,
                         !.hits = o.objects,
                         !.pc = "done",
                         !.result = GisResponse(DistrictEntries(o.objects),
                                                agent.target_plant)]
    /\ UNCHANGED orchestrator

\* lines 93-129: the keyword search over the plants property
GisKeyword ==
    /\ agent.pc = "gis_bm25"
    /\ \E o \in Engine(Districts, Bm25Limit) :
        agent' = [agent EXCEPT
                    !.calls.bm25 = @ + 1,
                    !.engine_ok = o.ok,
                    !.hits = o.objects,
                    !.pc = "done",
                    !.result = GisResponse(DistrictEntries(o.objects),
                                           agent.target_plant)]
    /\ UNCHANGED orchestrator

AgentNext ==
    \/ SearchEnter
    \/ BotanicalFilter
    \/ BotanicalRetry
    \/ CommonFilter
    \/ FilterSemantic
    \/ Semantic
    \/ SemanticRetry
    \/ KeywordSearch
    \/ Respond
    \/ GisEnter
    \/ GisFetch
    \/ GisKeyword

AgentSpec == AgentInit /\ [][AgentNext]_vars

-----------------------------------------------------------------------------
(* Properties *)

AgentNodes == {"research_agent", "gis_agent", "iucn_agent"}
Workers == {"research", "gis", "iucn"}

\* the step the node at pc is about to run
CurrentStep == plan[current_step_index + 1]

\* this step is a node calling its worker
CallsWorker(w) == agent_calls'[w] = agent_calls[w] + 1
CallsAnyWorker == \E w \in Workers : CallsWorker(w)

\* the accumulators are left as they are
DataUnchanged == UNCHANGED <<research_data, gis_data, iucn_data>>

\* C1: whenever the router runs with current_step_index >= len(plan), an
\* empty plan included, the decision is "synthesize", the next node is the
\* synthesizer, no worker is called and no routing language-model call is
\* made; and no agent node is ever entered with the plan used up.
C1_ExhaustedPlanSynthesizes ==
    /\ [](pc \in AgentNodes => current_step_index < Len(plan))
    /\ [][(pc = "router" /\ current_step_index >= Len(plan)) =>
            /\ route' = "synthesize"
            /\ pc' = "synthesizer"
            /\ agent_calls' = agent_calls
            /\ llm_calls'.router = llm_calls.router]_vars

\* C1 witness: the router has sent a two-step plan, both steps run, to synthesis
C1_Witness ==
    /\ pc = "synthesizer"
    /\ route = "synthesize"
    /\ Len(plan) = 2
    /\ current_step_index = Len(plan)

\* C2: in each of the three agent nodes, an empty result for a step not yet
\* retried is retried: the step text is rewritten to contain the original,
\* retry_count becomes 1, nothing is appended and the index stays; the index
\* advances, by one, only on a non-empty result or a used retry.
C2_EveryNodeRetriesOnce ==
    [][(pc \in AgentNodes /\ CallsAnyWorker) =>
        IF Len(last_result'.results) = 0 /\ retry_count = 0
        THEN /\ retry_count' = 1
             /\ Len(plan') = Len(plan)
             /\ Contains(CurrentStep, plan'[current_step_index + 1])
             /\ plan'[current_step_index + 1] # CurrentStep
             /\ DataUnchanged
             /\ current_step_index' = current_step_index
        ELSE current_step_index' = current_step_index + 1]_vars

\* C3: in the research node, an empty result with retry_count 0 sets
\* retry_count to 1 and replaces the step by the executed query followed by
\* " medicinal plant", leaving the index and research_data alone; with
\* retry_count 1 the empty result is appended, the index advances by one and
\* retry_count returns to 0.
C3_ResearchRetry ==
    [][(pc = "research_agent" /\ CallsWorker("research")
            /\ Len(last_result'.results) = 0) =>
        /\ retry_count \in {0, 1}
        /\ retry_count = 0 =>
            /\ retry_count' = 1
            /\ plan' = [plan EXCEPT ![current_step_index + 1] =
                            last_query' \o " medicinal plant"]
            /\ current_step_index' = current_step_index
            /\ research_data' = research_data
        /\ retry_count = 1 =>
            /\ research_data' = Append(research_data, last_result')
            /\ current_step_index' = current_step_index + 1
            /\ retry_count' = 0
            /\ plan' = plan]_vars

\* C3 witness: a research step stayed empty after its retry and was accepted
C3_Witness ==
    /\ pc = "router"
    /\ current_step_index = 1
    /\ retry_count = 0
    /\ Len(research_data) = 1
    /\ Len(research_data[1].results) = 0
    /\ plan[1] = question \o " medicinal plant"
    /\ agent_calls.research = 2

\* C4: 0 <= current_step_index <= len(plan) in every state, and a step never
\* lowers the index nor raises it by more than one.
C4_IndexBounds ==
    /\ [](0 <= current_step_index /\ current_step_index <= Len(plan))
    /\ [][/\ current_step_index' >= current_step_index
          /\ current_step_index' <= current_step_index + 1]_vars

\* C4 witness: the index has reached the end of a two-step plan
C4_Witness ==
    /\ Len(plan) = 2
    /\ current_step_index = 2
    /\ agent_calls.gis >= 1

\* C5: when the most recent research result names a botanical name N in its
\* first record, the text a node passes to its worker contains the step text
\* and N if the step text does not contain N, and is the step text if it does.
C5_ContextInjection ==
    [][(pc \in AgentNodes /\ CallsAnyWorker /\ Len(research_data) > 0) =>
        LET results == research_data[Len(research_data)].results
            N == results[1].botanical_name
        IN  (Len(results) > 0 /\ N # "") =>
                IF Contains(N, CurrentStep)
                THEN last_query' = CurrentStep
                ELSE /\ Contains(CurrentStep, last_query')
                     /\ Contains(N, last_query')]_vars

\* C5 witness: the geography worker was called with a location step that did
\* not name the plant, and the text it got names it
C5_Witness ==
    /\ pc = "router"
    /\ Len(research_data) = 1
    /\ Len(research_data[1].results) > 0
    /\ research_data[1].results[1].botanical_name = "Ocimum"
    /\ agent_calls.gis = 1
    /\ current_step_index = 2
    /\ ~Contains("Ocimum", plan[2])
    /\ Contains(plan[2], last_query)
    /\ Contains("Ocimum", last_query)

\* C6: whatever the language model and the workers return, the invocation
\* never ends in an unhandled exception.
C6_NeverCrashes == pc # "crashed"

\* worker calls still possible: two per step left, less the retry in use
Remaining == 2 * (Len(plan) - current_step_index) - retry_count

\* C7: the routing loop ends: every execution of an agent node hands back to
\* the router with fewer worker calls remaining, so no step is cycled on and
\* the synthesizer is reached, after at most 2 * len(plan) worker calls.
C7_Terminates ==
    /\ [](agent_calls.research + agent_calls.gis + agent_calls.iucn <= 2 * Len(plan))
    /\ [][(pc \in AgentNodes) =>
            /\ pc' = "router"
            /\ Remaining' < Remaining]_vars

\* the words of a text, lower-cased
WordsOf(s) == {Split(Lower(s))[n] : n \in 1..Len(Split(Lower(s)))}

\* C8: for a question of fewer than 8 words none of which is "and", "also"
\* or "compare", the planner calls no language model and the plan is
\* [question] or [question, location step], with index 0 and retry_count 0.
C8_FastPathByWords ==
    [][(/\ pc = "planner"
        /\ Len(Split(question)) < 8
        /\ WordsOf(question) \cap {"and", "also", "compare"} = {}) =>
            /\ llm_calls'.planner = llm_calls.planner
            /\ plan' \in {<<question>>,
                          <<question, "Find location and habitat data for: " \o question>>}
            /\ current_step_index' = 0
            /\ retry_count' = 0]_vars

\* the JSON list a response text carries between its first "[" and last "]"
ListIn(content) ==
    JsonLoads(Slice(content, Find("[", content), RFind("]", content) + 1))
CarriesList(outcome) ==
    /\ ~outcome.raised
    /\ Contains("[", outcome.content)
    /\ ListIn(outcome.content).ok

\* C9: when the planner asked the language model and the response carries a
\* parseable non-empty list of step strings, the plan after the planner is
\* that list and the index is 0.
C9_PlannerReturnsModelPlan ==
    [][(/\ pc = "planner"
        /\ llm_calls'.planner = llm_calls.planner + 1
        /\ CarriesList(planner_llm')
        /\ IsStrList(ListIn(planner_llm'.content).val)
        /\ Len(ListIn(planner_llm'.content).val.v) > 0) =>
            /\ plan' = StrList(ListIn(planner_llm'.content).val)
            /\ current_step_index' = 0]_vars

\* C10: when the planner asked the language model and the call raised or the
\* response carries no parseable list, the plan after the planner is
\* [question].
C10_PlannerFallsBackToQuestion ==
    [][(/\ pc = "planner"
        /\ llm_calls'.planner = llm_calls.planner + 1
        /\ ~CarriesList(planner_llm')) =>
            plan' = <<question>>]_vars

\* C11: for every question containing a location keyword, on the fast path and
\* on the language-model path alike, by the time synthesis starts the plan has
\* the step requesting location and habitat data for the question and the
\* geography agent has been called at least once.
C11_GeographyCoverage ==
    (pc = "synthesizer" /\ AnyIn(LocationWords, Lower(question))) =>
        /\ \E n \in 1..Len(plan) : plan[n] = LocationStep(question)
        /\ agent_calls.gis >= 1

\* the language-model answer of a routing outcome, without surrounding blanks
\* and in upper case
AnswerOf(outcome) == Upper(Strip(outcome.content))

\* the destination the classification of a routing outcome names
Classified(outcome) ==
    IF outcome.raised THEN "research"
    ELSE IF AnswerOf(outcome) = "GIS" THEN "gis"
    ELSE IF AnswerOf(outcome) = "IUCN" THEN "iucn"
    ELSE "research"

\* C12: when the router asks the language model about a step, an answer of GIS
\* routes to geography, an answer of IUCN to conservation, and every other
\* outcome (a failed call, an answer that is none of RESEARCH, GIS, IUCN) to
\* research; and every decision is one of research, gis, iucn, synthesize.
C12_RoutingByClassification ==
    [][pc = "router" =>
        /\ route' \in {"research", "gis", "iucn", "synthesize"}
        /\ (llm_calls'.router = llm_calls.router + 1) =>
               route' = Classified(router_llm')]_vars

\* the five keywords and, with "location", the six
FiveKeywords == {"where", "habitat", "region", "distribution", "grow"}
SixKeywords == FiveKeywords \cup {"location"}

\* the router, at a step inside the plan, routes to geography without a
\* language-model call exactly when the lower-cased step contains one of
\* keywords, and asks the language model otherwise
HeuristicOver(keywords) ==
    (pc = "router" /\ current_step_index < Len(plan)) =>
        IF AnyIn(keywords, Lower(CurrentStep))
        THEN route' = "gis" /\ llm_calls'.router = llm_calls.router
        ELSE llm_calls'.router = llm_calls.router + 1

\* C13: a step routes to geography without any language-model call exactly
\* when its lower-cased text contains one of the six keywords 'where',
\* 'location', 'region', 'habitat', 'distribution', 'grow'; a step containing
\* none of the six is classified by the language model.
C13_RoutingHeuristic == [][HeuristicOver(SixKeywords)]_vars

\* C13 as stated, with the five keywords 'where', 'habitat', 'region',
\* 'distribution', 'grow'
C13_FiveKeywords == [][HeuristicOver(FiveKeywords)]_vars

\* C13 witness: a first step with "location" and none of the five other
\* keywords has been routed to geography without a language-model call
C13_Witness ==
    /\ pc = "gis_agent"
    /\ current_step_index = 0
    /\ Contains("location", Lower(CurrentStep))
    /\ ~AnyIn(FiveKeywords, Lower(CurrentStep))
    /\ route = "gis"
    /\ llm_calls.router = 0

\* the turn the synthesizer appends for a question and a response of its model
TurnOf(q, outcome) ==
    <<[type |-> "human", content |-> q],
      [type |-> "system", content |-> Synthesis(outcome).answer]>>

\* this step starts a query on a newly constructed SuperAgent
NewInstance == session'.queries = session.queries + 1 /\ checkpoint' = <<>>

\* C14: on one orchestrator instance the session history holds exactly two
\* messages per completed invocation; a step changes it only in the
\* synthesizer, by appending user(question), system(answer) of the turn, a
\* failed synthesis included; no other node and no later query changes it.
C14_HistoryAppendOnly ==
    /\ [](Len(chat_history) =
            2 * (session.served + (IF pc = "returning" THEN 1 ELSE 0)))
    /\ [](checkpoint = chat_history)
    /\ [][~NewInstance =>
            \/ chat_history' = chat_history
            \/ /\ pc = "synthesizer"
               /\ chat_history' = chat_history \o TurnOf(question, synth_llm')]_vars

\* C14 witness: the instance has completed two invocations, the first with a
\* failed synthesis, and the history is the two turns in call order
C14_Witness ==
    /\ pc = "done"
    /\ session.served = 2
    /\ Len(chat_history) = 4
    /\ chat_history[1].type = "human"
    /\ chat_history[2] = [type |-> "system", content |-> FailedText]
    /\ chat_history[3] = [type |-> "human", content |-> question]
    /\ chat_history[3] # chat_history[1]
    /\ chat_history[4].type = "system"

\* C15: at planning time a query sees the two messages of every earlier
\* completed query of its session identifier, whichever entry point the
\* queries came through.
C15_SessionContinuity ==
    pc = "planner" => Len(chat_history) = 2 * session.completed

\* the messages before a query's own turn, newest last
Preceding == LastOf(chat_history, 2)

\* C17: for a question asked with a non-empty session history the planner
\* calls the language model, the prompt contains the content of the preceding
\* user and system messages, and a list of steps the model returns becomes the
\* plan.
C17_PlannerUsesHistory ==
    [][(pc = "planner" /\ Len(chat_history) > 0) =>
        /\ llm_calls'.planner = llm_calls.planner + 1
        /\ \A n \in 1..Len(Preceding) : Contains(Preceding[n].content, planner_prompt')
        /\ (/\ CarriesList(planner_llm')
            /\ IsStrList(ListIn(planner_llm'.content).val)
            /\ Len(ListIn(planner_llm'.content).val.v) > 0) =>
                plan' = StrList(ListIn(planner_llm'.content).val)]_vars

\* C18: on the language-model path the planner's prompt carries the last two
\* turns of the session history (four messages, fewer if the history is
\* shorter) and nothing older.
C18_PromptHasTwoTurns ==
    [][(pc = "planner" /\ llm_calls'.planner = llm_calls.planner + 1) =>
        planner_prompt' =
            PlannerPrompt(IF Len(chat_history) = 0 THEN ""
                          ELSE FormatHistory(LastOf(chat_history, 4)),
                          question)]_vars

\* a response of the synthesis model that is no JSON object
NotAnObject(outcome) ==
    \/ outcome.raised
    \/ ~JsonLoads(outcome.content).ok
    \/ JsonLoads(outcome.content).val.k # "obj"

FailureJson == "{\"answer\": \"Failed to synthesize answer.\"}"

\* C19: when the synthesis call raises or its output is no parseable JSON
\* object, the synthesizer completes: final_answer is the failure answer, the
\* turn (question, failure answer) is appended to the history, and query
\* returns the failure text as its answer.
C19_SynthesisFailureDegrades ==
    /\ [][(pc = "synthesizer" /\ NotAnObject(synth_llm')) =>
            /\ pc' = "returning"
            /\ final_answer' = FailureJson
            /\ chat_history' = chat_history \o
                   <<[type |-> "human", content |-> question],
                     [type |-> "system", content |-> "Failed to synthesize answer."]>>]_vars
    /\ []((pc = "done" /\ final_answer = FailureJson) =>
            response.answer = JStr("Failed to synthesize answer."))

\* C19 witness: the synthesis model returned a JSON list, and the synthesizer
\* has stored the failure answer and appended the turn
C19_Witness ==
    /\ pc = "returning"
    /\ synth_llm = Returned("[\"Tulsi\"]")
    /\ final_answer = FailureJson
    /\ chat_history[Len(chat_history)].content = FailedText

\* the last two messages of a history: the turn of the invocation holding it
OwnTurn(history) == SubSeq(history, Len(history) - 1, Len(history))

\* C16: when two invocations with the same session identifier have both
\* completed, in whatever order their steps interleaved, the stored history
\* has four messages: both turns, each question directly followed by its own
\* answer.
C16_ConcurrentTurnsKept ==
    (pc = "done" /\ peer.pc = "done") =>
        /\ Len(checkpoint) = 4
        /\ {SubSeq(checkpoint, 1, 2), SubSeq(checkpoint, 3, 4)} =
               {OwnTurn(chat_history), OwnTurn(peer.chat_history)}

\* the serialization of the accumulated results of the state
Serialization == Serialized(research_data, gis_data, iucn_data)

\* C20: once the synthesizer has run, the context of its prompt is the
\* serialization of the accumulated results if that has at most 8000
\* characters, and otherwise its first 8000 characters followed by the marker
\* "... [TRUNCATED]", 8015 characters in all; the context ends with the marker
\* exactly when the serialization was longer than 8000 characters; and the
\* synthesizer completed.
C20_ContextBudget ==
    /\ [](pc \in {"returning", "done"} =>
            IF Len(Serialization) > 8000
            THEN /\ synth_context = SubSeq(Serialization, 1, 8000) \o "... [TRUNCATED]"
                 /\ Len(synth_context) = 8000 + Len("... [TRUNCATED]")
            ELSE /\ synth_context = Serialization
                 /\ SubSeq(synth_context, Len(synth_context) - 14, Len(synth_context))
                        # "... [TRUNCATED]")
    /\ [][pc = "synthesizer" => pc' = "returning"]_vars

\* C20 witness: a serialization one character over the budget has been cut
C20_Witness ==
    /\ pc = "returning"
    /\ Len(Serialization) = 8001
    /\ Len(synth_context) = 8015

\* words by which a question asks for locations
AsksLocationWords ==
    {"location", "where", "distribution", "map", "grow", "district", "place",
     "region", "habitat"}

\* C21: when query has returned for a question that did not ask for location
\* or distribution information, the returned locations list is empty,
\* whatever the synthesis model answered.
C21_LocationsOnlyOnRequest ==
    (pc = "done" /\ ~AnyIn(AsksLocationWords, Lower(question))) =>
        response.locations = JList(<<>>)

\* the JSON object stored as the final answer
FinalObject == JsonLoads(final_answer).val

\* C22: when query has returned, its answer and locations are those of the
\* final answer's JSON object (None and [] when absent), and image_url is null
\* when the object has no image_query, or a null one, or the fetcher found no
\* image, and otherwise a URL.
C22_ReturnsSynthesizedFields ==
    pc = "done" =>
        /\ response.answer = DictGet(FinalObject, "answer", JNull)
        /\ response.locations = DictGet(FinalObject, "locations", JList(<<>>))
        /\ (DictGet(FinalObject, "image_query", JNull).k = "null") =>
               response.image_url.k = "null"
        /\ response.image_url.k \in {"null", "str"}


\* one edit: a character replaced, dropped or added, or two neighbours swapped
WithinOneEdit(w, k) ==
    \/ w = k
    \/ /\ Len(w) = Len(k)
       /\ \E i \in 1..Len(k) :
            \A j \in (1..Len(k)) \ {i} : CharAt(w, j) = CharAt(k, j)
    \/ /\ Len(w) = Len(k)
       /\ \E i \in 1..(Len(k) - 1) :
            /\ CharAt(w, i) = CharAt(k, i + 1)
            /\ CharAt(w, i + 1) = CharAt(k, i)
            /\ \A j \in (1..Len(k)) \ {i, i + 1} : CharAt(w, j) = CharAt(k, j)
    \/ /\ Len(w) = Len(k) + 1
       /\ \E i \in 1..Len(w) : DropAt(w, i) = k
    \/ /\ Len(w) + 1 = Len(k)
       /\ \E i \in 1..Len(k) : DropAt(k, i) = w

Tokens(query) == {Split(Lower(query))[n] : n \in 1..Len(Split(Lower(query)))}

\* C23: a query with a token within one edit (substitution, insertion,
\* deletion or adjacent transposition) of a key of the alias dictionary, for
\* every key, gives a non-empty set holding that key and all its aliases.
C23_TyposFound ==
    agent.pc = "extracted" =>
        \A n \in Entries :
            (\E w \in Tokens(agent.query) : WithinOneEdit(w, CommonNameMap[n].key)) =>
                /\ agent.plant_names # {}
                /\ CommonNameMap[n].variants \subseteq agent.plant_names

\* C24: for everyday text that names no plant of the dictionary the extractor
\* returns the empty set.
C24_GenericTextEmpty ==
    (agent.pc = "extracted" /\ agent.query \in GenericQueries) =>
        agent.plant_names = {}

\* the call at hand is a plant agent's and _search has returned
Searched == agent.name \in PlantAgents /\ agent.pc \in {"validate", "done"}

\* unrestricted searches made so far: semantic, of either place, and keyword
Unrestricted(c) == c.filter_semantic + c.semantic + c.bm25

\* what the extractor finds in each query the agents are given
Named == [q \in PlantQueries \cup GisQueries |-> ExtractPlantNames(q)]

\* C25: in the Research and Conservation agents, when the extractor finds
\* names the canonical-name filter is tried for every name before the
\* common-names filter, their hits are returned cut to limit with no
\* unrestricted search made, and an unrestricted search is made only once
\* both filters gave nothing; when the extractor finds nothing no filtered
\* search is made and the semantic search is made, nothing being raised.
C25_CascadeOrder ==
    /\ [](Searched /\ Named[agent.query] # {} =>
            /\ Len(agent.exact_matches) > 0 =>
                /\ agent.hits = FirstN(agent.exact_matches, agent.limit)
                /\ Len(agent.hits) <= agent.limit
                /\ agent.calls.common = 0
                /\ Unrestricted(agent.calls) = 0
            /\ (Len(agent.exact_matches) = 0 /\ Len(agent.common_matches) > 0) =>
                /\ agent.hits = FirstN(agent.common_matches, agent.limit)
                /\ Len(agent.hits) <= agent.limit
                /\ Unrestricted(agent.calls) = 0)
    /\ [](Searched /\ agent.collection /\ Named[agent.query] = {} =>
            /\ agent.calls.botanical = 0
            /\ agent.calls.common = 0
            /\ agent.calls.filter_semantic = 0
            /\ agent.calls.semantic >= 1
            /\ ~agent.raised)
    /\ [][agent.name \in PlantAgents =>
            /\ agent'.calls.common > agent.calls.common =>
                /\ agent.calls.botanical >= Cardinality(Named[agent.query])
                /\ Len(agent.exact_matches) = 0
            /\ Unrestricted(agent'.calls) > Unrestricted(agent.calls) =>
                \/ Named[agent.query] = {}
                \/ /\ agent.calls.botanical >= Cardinality(Named[agent.query])
                   /\ agent.calls.common = Cardinality(Named[agent.query])
                   /\ Len(agent.exact_matches) = 0
                   /\ Len(agent.common_matches) = 0]_vars

\* C25 witness: the canonical-name filter found more than limit records and
\* the first limit of them were returned at once
C25_Witness ==
    /\ agent.pc = "done"
    /\ agent.name \in PlantAgents
    /\ Len(agent.exact_matches) > agent.limit
    /\ Len(agent.hits) = agent.limit
    /\ agent.calls.botanical >= 2
    /\ Unrestricted(agent.calls) = 0

\* the parts of C26 that do not count the semantic searches: the step after a
\* failed semantic search reconnects once and, connected, searches once more;
\* the keyword search follows a failed retry or reconnect, is made once, and
\* its failure gives the empty list; nothing is raised
FailureHandling ==
    /\ [](agent.name \in PlantAgents =>
            /\ ~agent.raised
            /\ agent.pc # "raised"
            /\ agent.calls.bm25 <= 1
            /\ agent.calls.bm25 = 1 => agent.calls.semantic >= 1)
    /\ [][agent.name \in PlantAgents =>
            /\ (agent.pc = "semantic" /\ ~agent'.engine_ok) =>
                  agent'.pc = "semantic_retry"
            /\ agent.pc = "semantic_retry" =>
                /\ agent'.calls.connect = agent.calls.connect + 1
                /\ agent'.calls.semantic \in
                      {agent.calls.semantic, agent.calls.semantic + 1}
                /\ agent'.calls.semantic > agent.calls.semantic => agent'.client
                /\ agent'.pc = "validate" =>
                      agent'.calls.semantic > agent.calls.semantic /\ agent'.engine_ok
                /\ agent'.pc # "validate" => agent'.pc = "bm25"
            /\ agent.pc = "bm25" =>
                /\ agent'.calls.bm25 = agent.calls.bm25 + 1
                /\ agent'.calls.semantic = agent.calls.semantic
                /\ agent'.pc = "validate"
                /\ ~agent'.engine_ok => agent'.hits = <<>>]_vars

\* C26 as stated: with the failure handling above, a _search call makes at
\* most two semantic searches and one keyword search.
C26_TwoSemanticAttempts ==
    /\ FailureHandling
    /\ [](agent.name \in PlantAgents =>
            agent.calls.filter_semantic + agent.calls.semantic <= 2)

\* C26: a failed semantic search of _search is retried once after the
\* reconnect, if connected; then one keyword search is made, whose failure
\* gives the empty list; nothing is raised. _search itself makes at most two
\* semantic searches and one keyword search; when names were extracted the
\* filtered search makes one semantic search of its own before them, so a
\* call makes at most three semantic searches.
C26_SemanticFailureHandling ==
    /\ FailureHandling
    /\ [](agent.name \in PlantAgents =>
            /\ agent.calls.semantic <= 2
            /\ agent.calls.filter_semantic <= 1
            /\ agent.calls.filter_semantic = 1 => Named[agent.query] # {})

\* C26 witness: the filtered search's semantic search, the semantic search
\* and its retry after a reconnect, and the keyword search all failed, and
\* the empty list went on to validation
C26_Witness ==
    /\ agent.name \in PlantAgents
    /\ agent.pc = "validate"
    /\ agent.calls.filter_semantic = 1
    /\ agent.calls.semantic = 2
    /\ agent.calls.bm25 = 1
    /\ ~agent.engine_ok
    /\ agent.hits = <<>>

\* the record names one of the aliases in its botanical name or in one of
\* its common names, lower-cased
NamesAlias(aliases, record) ==
    \E a \in aliases :
        \/ "botanical_name" \in DOMAIN record /\ Contains(a, Lower(record.botanical_name))
        \/ /\ "common_names" \in DOMAIN record
           /\ \E n \in 1..Len(record.common_names) :
                Contains(a, Lower(record.common_names[n]))

RECURSIVE KeptInOrder(_, _)
\* the members of the list at the positions of keep, in the order of the list
KeptInOrder(list, keep) ==
    IF Len(list) = 0 THEN <<>>
    ELSE KeptInOrder(SubSeq(list, 1, Len(list) - 1), keep)
            \o (IF Len(list) \in keep THEN <<list[Len(list)]>> ELSE <<>>)

\* C27: _validate_results returns candidates only, and some whenever there
\* are some; with names extracted, the candidates naming an alias are kept
\* in order and every other candidate gives one warning, and when none names
\* an alias all candidates are returned with one more warning, of no direct
\* matches; with no names extracted the candidates come back unchanged with
\* no warnings.
C27_ValidationNeverBlocks ==
    (agent.pc = "done" /\ agent.name \in PlantAgents) =>
        LET candidates == agent.hits
            aliases == Named[agent.query]
            matching == {n \in 1..Len(candidates) : NamesAlias(aliases, candidates[n])}
            out == agent.validated
        IN  /\ \E keep \in SUBSET (1..Len(candidates)) :
                    out.results = KeptInOrder(candidates, keep)
            /\ Len(candidates) > 0 => Len(out.results) > 0
            /\ aliases = {} => out.results = candidates /\ Len(out.warnings) = 0
            /\ (aliases # {} /\ matching # {}) =>
                /\ out.results = KeptInOrder(candidates, matching)
                /\ Len(out.warnings) = Len(candidates) - Cardinality(matching)
                /\ \A w \in 1..Len(out.warnings) :
                        Contains("instead of requested plant", out.warnings[w])
            /\ (aliases # {} /\ matching = {} /\ Len(candidates) > 0) =>
                /\ out.results = candidates
                /\ Len(out.warnings) = Len(candidates) + 1
                /\ Contains("No direct matches found",
                            out.warnings[Len(out.warnings)])
            /\ agent.result.warnings = out.warnings
            /\ Len(agent.result.results) = Len(out.results)

\* C27 witness: of several candidates some named the plant asked for and were
\* kept, the others gave warnings
C27_Witness ==
    /\ agent.pc = "done"
    /\ agent.name \in PlantAgents
    /\ Len(agent.hits) >= 2
    /\ Len(agent.validated.results) >= 1
    /\ Len(agent.validated.results) < Len(agent.hits)
    /\ Len(agent.validated.warnings) >= 1

\* C28: for each of the three agents, with the data source unreachable for
\* the whole call, process_query raises nothing and returns a result with an
\* error field and a summary that is no count of matches and no "nothing
\* found", so that the failure differs from a search that found nothing.
C28_UnreachableReported ==
    (agent.pc = "done" /\ ~agent.reachable) =>
        /\ ~agent.raised
        /\ "error" \in DOMAIN agent.result
        /\ agent.result.results = <<>>
        /\ ~Contains("matches", agent.result.summary)
        /\ ~Contains("No specific district data found", agent.result.summary)

\* the objects of the last search that have a district
WithDistrict(objects) ==
    {n \in 1..Len(objects) :
        "district" \in DOMAIN objects[n] /\ objects[n].district # ""}

\* the geography agent answered from the objects a search returned
GisAnswered ==
    /\ agent.name = "GISAgent"
    /\ agent.pc = "done"
    /\ agent.engine_ok
    /\ agent.calls.fetch_objects = 1

\* C29: the geography agent's results hold one entry for each record the
\* data source returned that has a district, in the order returned; the
\* records Bangalore, Belgaum give two entries, the first of Bangalore.
C29_OneEntryPerDistrict ==
    GisAnswered =>
        LET located == KeptInOrder(agent.hits, WithDistrict(agent.hits))
            results == agent.result.results
        IN  /\ Len(results) = Len(located)
            /\ \A n \in 1..Len(located) : results[n].district = located[n].district
            /\ agent.hits = <<Bangalore, Belgaum>> =>
                    Len(results) = 2 /\ results[1].district = "Bangalore"

\* C29 witness: the data source returned Bangalore then Belgaum
C29_Witness ==
    /\ GisAnswered
    /\ agent.hits = <<Bangalore, Belgaum>>
    /\ Len(agent.result.results) = 2

\* C30: the entry of a record that has a location carries its latitude.
C30_EntriesCarryLatitude ==
    GisAnswered =>
        LET located == KeptInOrder(agent.hits, WithDistrict(agent.hits))
            results == agent.result.results
        IN  \A n \in 1..Len(located) :
                (n <= Len(results) /\ "location" \in DOMAIN located[n]) =>
                    /\ "latitude" \in DOMAIN results[n]
                    /\ results[n].latitude = located[n].location.latitude

\* the districts of a geography answer, and the text of its summary after
\* the colon
AnsweredDistricts ==
    {agent.result.results[n].district : n \in 1..Len(agent.result.results)}
DistrictList ==
    LET text == agent.result.summary
        at == Find(": ", text)
    IN  IF at < 0 THEN "" ELSE Slice(text, at + 2, Len(text))

\* C31: the geography summary names the matching districts deduplicated and
\* sorted, gives the number of unique districts, names at most 10 of them
\* and, when there are more, tells how many remain (the unique count minus
\* 10); with no results it says that no district data was found.
C31_DistrictSummary ==
    GisAnswered =>
        IF Len(agent.result.results) = 0
        THEN Contains("No specific district data found", agent.result.summary)
        ELSE LET unique == Cardinality(AnsweredDistricts)
                 rest == unique - MaxNamed
                 list == DistrictList
                 first == [d \in AnsweredDistricts |-> Find(d, list)]
                 last == [d \in AnsweredDistricts |-> RFind(d, list)]
                 named == {d \in AnsweredDistricts : first[d] >= 0}
             IN  /\ Contains(" in " \o ToString(unique) \o " districts: ",
                              agent.result.summary)
                 /\ Cardinality(named) = (IF rest > 0 THEN MaxNamed ELSE unique)
                 /\ \A d \in named :
                        /\ first[d] = last[d]
                        /\ \A e \in named : StrLess(d, e) => first[d] < first[e]
                        /\ \A e \in AnsweredDistricts \ named : StrLess(d, e)
                 /\ Contains(" others", agent.result.summary) <=> rest > 0
                 /\ rest > 0 =>
                        Contains(" and " \o ToString(rest) \o " others.",
                                 agent.result.summary)

\* a geography answer with more than ten districts, one of them found twice
C31_Witness ==
    /\ GisAnswered
    /\ Cardinality(AnsweredDistricts) > MaxNamed
    /\ Len(agent.result.results) > Cardinality(AnsweredDistricts)
    /\ Contains(" others.", agent.result.summary)

\* C32: retry_count is 0 or 1 in every state. It becomes 1 only when the
\* research node ran a step with retry_count 0 and found nothing; while it is
\* 1 the step and the index stay, and the next agent node that completes on
\* that step returns it to 0. It is 0 after every advance of
\* current_step_index and at the start of every invocation.
C32_RetryCountPending ==
    [][/\ retry_count' \in {0, 1}
       /\ pc' = "planner" => retry_count' = 0
       /\ (pc' # "planner" /\ current_step_index' > current_step_index) =>
              retry_count' = 0
       /\ (retry_count = 0 /\ retry_count' = 1) =>
              /\ pc = "research_agent"
              /\ agent_calls'.research = agent_calls.research + 1
              /\ Len(last_result'.results) = 0
              /\ current_step_index' = current_step_index
       /\ (retry_count = 1 /\ retry_count' = 1) =>
              /\ plan' = plan
              /\ current_step_index' = current_step_index
              /\ agent_calls' = agent_calls
       /\ (retry_count = 1 /\ pc \in AgentNodes /\ pc' # "crashed") =>
              /\ retry_count' = 0
              /\ pc' = "planner" \/ current_step_index' = current_step_index + 1
      ]_vars

\* in a later turn of a session, a step of which the first attempt found
\* nothing has been run again by a domain node, which advanced
C32_Witness ==
    /\ session.queries > 1
    /\ pc = "router"
    /\ current_step_index > 0
    /\ retry_count = 0
    /\ agent_calls.research + agent_calls.gis + agent_calls.iucn > current_step_index

\* C33: an invocation starts with plan, current_step_index, the three
\* accumulators and retry_count reset and with no final answer, whatever the
\* turn before left in the session: of the state of the turn before only the
\* chat history is there; and the context given to the synthesis model is
\* built from the results the agents returned in this turn.
C33_OnlyHistoryCarriesOver ==
    [][/\ pc' = "planner" =>
              /\ plan' = <<>>
              /\ current_step_index' = 0
              /\ research_data' = <<>> /\ gis_data' = <<>> /\ iucn_data' = <<>>
              /\ retry_count' = 0
              /\ final_answer' = ""
       /\ pc = "synthesizer" =>
              /\ synth_context' = SynthContext(research_data, gis_data, iucn_data)
              /\ Len(research_data) <= agent_calls.research
              /\ Len(gis_data) <= agent_calls.gis
              /\ Len(iucn_data) <= agent_calls.iucn
      ]_vars

\* the latest research result of the invocation holds no records
LastResearchEmpty ==
    /\ Len(research_data) > 0
    /\ Len(research_data[Len(research_data)].results) = 0

\* C34: when the latest research result has an empty results list, the next
\* domain node still executes: nothing is injected, the agent is called with
\* the step text, and the node hands over to the router on the way to
\* synthesis.
C34_EmptyResearchTolerated ==
    [][(pc \in AgentNodes /\ LastResearchEmpty) =>
          /\ pc' = "router"
          /\ last_query' = CurrentStep
          /\ CallsAnyWorker
      ]_vars

\* the number of results the invocation has accumulated
Accumulated == Len(research_data) + Len(gis_data) + Len(iucn_data)

\* old is the list new without its last element, and that element is r
GrewBy(old, new, r) == new = Append(old, r)

\* C35: from planning to synthesis len(research_data) + len(gis_data) +
\* len(iucn_data) equals current_step_index: within an invocation an advance
\* appends the result of the call to exactly one accumulator and leaves the
\* other two, no accumulator is ever shortened, and a retry appends nothing.
C35_OneResultPerStep ==
    [][/\ Accumulated' = current_step_index'
       /\ pc' # "planner" =>
            IF current_step_index' # current_step_index
            THEN /\ current_step_index' = current_step_index + 1
                 /\ \/ /\ GrewBy(research_data, research_data', last_result')
                       /\ gis_data' = gis_data /\ iucn_data' = iucn_data
                    \/ /\ GrewBy(gis_data, gis_data', last_result')
                       /\ research_data' = research_data /\ iucn_data' = iucn_data
                    \/ /\ GrewBy(iucn_data, iucn_data', last_result')
                       /\ research_data' = research_data /\ gis_data' = gis_data
            ELSE /\ research_data' = research_data
                 /\ gis_data' = gis_data
                 /\ iucn_data' = iucn_data
      ]_vars

\* synthesis is about to start after a retried research step and a geography
\* step
C35_Witness ==
    /\ pc = "synthesizer"
    /\ Len(research_data) > 0
    /\ Len(gis_data) > 0
    /\ agent_calls.research + agent_calls.gis + agent_calls.iucn > current_step_index

\* this step is the research node asking for a retry
IsRetry == pc = "research_agent" /\ retry_count' = retry_count + 1

\* C36: a retry changes only the text of plan[current_step_index] and
\* retry_count: the length of the plan, the text of every other step,
\* current_step_index, the three accumulators and the chat history stay, and
\* the node hands over to the router, whose current step is the rewritten one.
C36_RetryFrame ==
    [][IsRetry =>
          /\ Len(plan') = Len(plan)
          /\ \A n \in 1..Len(plan) :
                 n # current_step_index + 1 => plan'[n] = plan[n]
          /\ plan'[current_step_index + 1] # plan[current_step_index + 1]
          /\ current_step_index' = current_step_index
          /\ research_data' = research_data
          /\ gis_data' = gis_data
          /\ iucn_data' = iucn_data
          /\ chat_history' = chat_history
          /\ question' = question
          /\ final_answer' = final_answer
          /\ pc' = "router"
          /\ CurrentStep' = last_query' \o RetrySuffix
      ]_vars

\* a retry is pending on the first step of a plan of two steps
C36_Witness ==
    /\ pc = "router"
    /\ retry_count = 1
    /\ Len(plan) = 2
    /\ current_step_index = 0
    /\ Contains(RetrySuffix, plan[1])
    /\ ~Contains(RetrySuffix, plan[2])

\* C37: the answer query returns is a string, never null, and is the text of
\* the system message the turn recorded in the chat history, whatever JSON
\* object the synthesis model returned.
C37_AnswerIsRecordedText ==
    pc = "done" =>
        /\ response.answer.k = "str"
        /\ chat_history[Len(chat_history)].type = "system"
        /\ response.answer.v = chat_history[Len(chat_history)].content

\* C38: the query_rewriter node is never entered: no routing decision is
\* "rewrite", every transition out of the router goes to a domain node or to
\* the synthesizer, and a retry hands the rewritten step to the router, which
\* routes it like any other step.
C38_RewriterNeverEntered ==
    [][/\ pc' # "query_rewriter"
       /\ route' # "rewrite"
       /\ pc = "router" =>
              /\ pc' \in AgentNodes \cup {"synthesizer"}
              /\ route' \in {"research", "gis", "iucn", "synthesize"}
              /\ pc' = Edges[route']
       /\ IsRetry => pc' = "router" /\ route' = route
      ]_vars

\* the router has routed a step rewritten by a retry
C38_Witness ==
    /\ pc \in AgentNodes
    /\ retry_count = 1
    /\ Contains(RetrySuffix, CurrentStep)

\* C39: the limit an agent is called with bounds what it retrieves: the
\* AgentResult it returns, which the orchestrator accumulates, holds at most
\* limit records.
C39_LimitBoundsResults ==
    agent.pc = "done" => Len(agent.result.results) <= agent.limit

\* C40: the AgentResult process_query returns, for each of the three agents,
\* holds a confidence c with 0 <= c <= 1 that equals
\* min(1, number of results / limit).
C40_ConfidenceInUnitInterval ==
    agent.pc = "done" =>
        /\ "confidence" \in DOMAIN agent.result
        /\ LET c == agent.result.confidence
               n == Len(agent.result.results)
           IN  /\ c.den > 0
               /\ 0 <= c.num /\ c.num <= c.den
               /\ IF n >= agent.limit THEN c.num = c.den
                  ELSE c.num * agent.limit = n * c.den

=========================================================================
